---- MODULE Spec2Model ----
(***************************************************************************)
(* ScopeSignal: the classify-cache-validate pipeline.                      *)
(*   classifier/agent.py  ScopeSignalClassifier (retry loop, validation)   *)
(*   classifier/cache.py  ResultCache (file-per-key store with a ttl)      *)
(***************************************************************************)
EXTENDS Integers, Sequences, FiniteSets, TLC

(***************************************************************************)
(* Bounds of the model.                                                    *)
(***************************************************************************)
\* largest max_retries a classifier is constructed with
MaxRetries == 3
\* ttl_seconds the ResultCache is constructed with, in clock units
Ttl == 2
\* the clock stops advancing here; a request starts only while its whole
\* backoff schedule still fits below MaxTime
MaxTime == 6
\* number of classify_update calls in one behaviour
MaxRequests == 2
\* longest list given to classify_batch
MaxBatch == 2
\* the longest trade and the longest update_text given to _cache_key directly
MaxStr == 2
\* the most calls made on one DecisionProof used directly
MaxProofCalls == 4

(***************************************************************************)
(* Program constants.                                                      *)
(***************************************************************************)
ContestableCeiling == 85
SoftOpenCeiling == 75
ConfidenceMax == 100
ConfidenceMin == 0

(***************************************************************************)
(* JSON values.  A scalar is [t, n, s]: t the JSON/Python type, n the      *)
(* number (a float is kept in halves, so 50.5 is n = 101), s the string.   *)
(* A dict is a function from keys to values.                               *)
(***************************************************************************)
JInt(n) == [t |-> "int", n |-> n, s |-> ""]
JFloatHalves(h) == [t |-> "float", n |-> h, s |-> ""]
JBool(b) == [t |-> "bool", n |-> IF b THEN 1 ELSE 0, s |-> ""]
JStr(str) == [t |-> "str", n |-> 0, s |-> str]
JNull == [t |-> "NoneType", n |-> 0, s |-> ""]

EmptyDict == [k \in {} |-> JNull]
Put(d, key, v) == [k \in (DOMAIN d) \cup {key} |-> IF k = key THEN v ELSE d[k]]
Pop(d, key) == [k \in (DOMAIN d) \ {key} |-> d[k]]

\* Python truth value of a JSON scalar: `not result["trade_relevant"]`
Truthy(v) ==
    CASE v.t = "bool" -> v.n = 1
      [] v.t = "int" -> v.n # 0
      [] v.t = "float" -> v.n # 0
      [] v.t = "str" -> v.s # ""
      [] OTHER -> FALSE

\* isinstance(v, (int, float)): bool is a subclass of int
IsNumber(v) == v.t \in {"int", "float", "bool"}
\* twice the numeric value, so that halves compare exactly
Twice(v) == IF v.t = "float" THEN v.n ELSE 2 * v.n

(***************************************************************************)
(* Requests: texts and trades are strings of characters, so that the byte  *)
(* string hashed by _cache_key can be formed.                              *)
(***************************************************************************)
Electrical == <<"E", "l", "e", "c", "t", "r", "i", "c", "a", "l">>
HVAC == <<"H", "V", "A", "C">>
Plumbing == <<"P", "l", "u", "m", "b", "i", "n", "g">>
Roofing == <<"R", "o", "o", "f", "i", "n", "g">>
\* as ValidTrades, with a fourth trade let through
ValidTrades_with_roofing == {Electrical, HVAC, Plumbing, Roofing}

\* as ValidTrades, with a trade that ends in the separator let through
ValidTrades_with_colon == {Electrical, HVAC, Plumbing, HVAC \o <<":">>}

\* line 180
ValidTrades == {Electrical, HVAC, Plumbing}

\* the (text, trade) pairs callers ask about
Requests ==
    {[text |-> <<"a">>, trade |-> Electrical], [text |-> <<"a">>, trade |-> HVAC],
     [text |-> <<"a">>, trade |-> Roofing]}

\* _cache_key: sha256 of f"{trade}:{update_text}".  The digest is kept as the
\* hashed byte string itself (sha256 taken as injective on its input).
cache_key(update_text, trade) == trade \o <<":">> \o update_text
JHex(key) == [t |-> "str", n |-> 0, s |-> "sha256", of |-> key]
Keys == {cache_key(r.text, r.trade) : r \in {q \in Requests : q.trade \in ValidTrades}}

(***************************************************************************)
(* One remote call: _call_llm raises, or returns text.  Text is            *)
(* [fence, lang, j, d]: an optional markdown fence with a language tag     *)
(* around a body that is malformed or a JSON value of type j (d: the       *)
(* members when it is an object).                                          *)
(***************************************************************************)
Text(fence, lang, j, d) == [call |-> "text", fence |-> fence, lang |-> lang, j |-> j, d |-> d]
TransportFailure == [call |-> "raise", fence |-> "none", lang |-> "", j |-> "malformed", d |-> EmptyDict]
\* response_text before the first call
NoResponse == [call |-> "none", fence |-> "none", lang |-> "", j |-> "malformed", d |-> EmptyDict]

required_fields ==
    {"trade_relevant", "classification", "confidence", "reasoning", "risk_note",
     "recommended_action"}
valid_classifications == {"CLOSED", "SOFT_OPEN", "CONTESTABLE"}

\* lines 203-207: strip a leading ``` fence and a "json" tag, then json.loads.
\* Any other tag stays in front of the body, which then does not parse.
ParsesAsJson(resp) ==
    /\ resp.j # "malformed"
    /\ \/ resp.fence = "none" /\ resp.lang = ""
       \/ resp.fence = "md" /\ resp.lang \in {"", "json"}

\* as _validate_schema_invariants, without the rule on trade_relevant
validate_without_relevance_rule(result) ==
    LET classification == result["classification"].s
        confidence == result["confidence"]
    IN  IF classification = "CONTESTABLE" /\ Twice(confidence) > 2 * ContestableCeiling
        THEN "InvariantContestable"
        ELSE IF classification = "SOFT_OPEN" /\ Twice(confidence) > 2 * SoftOpenCeiling
             THEN "InvariantSoftOpen"
        ELSE "ok"

\* as _validate_schema_invariants, without the CONTESTABLE ceiling
validate_without_contestable_ceiling(result) ==
    LET classification == result["classification"].s
        confidence == result["confidence"]
    IN  IF ~Truthy(result["trade_relevant"]) /\ classification # "CLOSED"
        THEN "InvariantRelevance"
        ELSE IF classification = "SOFT_OPEN" /\ Twice(confidence) > 2 * SoftOpenCeiling
             THEN "InvariantSoftOpen"
        ELSE "ok"

\* _validate_schema_invariants on a dict that passed the field, enum and range
\* checks: "ok" or the ValueError raised
_validate_schema_invariants(result) ==
    LET classification == result["classification"].s
        confidence == result["confidence"]
    IN  IF ~Truthy(result["trade_relevant"]) /\ classification # "CLOSED"
        THEN "InvariantRelevance"
        ELSE IF classification = "CONTESTABLE" /\ Twice(confidence) > 2 * ContestableCeiling
             THEN "InvariantContestable"
        ELSE IF classification = "SOFT_OPEN" /\ Twice(confidence) > 2 * SoftOpenCeiling
             THEN "InvariantSoftOpen"
        ELSE "ok"

\* as ValidationError, without the call of _validate_schema_invariants
ValidationError_without_invariants(resp) ==
    LET d == resp.d IN
    CASE resp.j \in {"number", "null"} -> "TypeError"
      [] resp.j \in {"list", "string"} -> "MissingField"
      [] OTHER ->
         IF ~(required_fields \subseteq DOMAIN d) THEN "MissingField"
         ELSE IF ~(d["classification"].t = "str"
                   /\ d["classification"].s \in valid_classifications)
              THEN "InvalidClassification"
         ELSE IF ~(IsNumber(d["confidence"])
                   /\ 2 * ConfidenceMin <= Twice(d["confidence"])
                   /\ Twice(d["confidence"]) <= 2 * ConfidenceMax)
              THEN "ConfidenceRange"
         ELSE "ok"

\* lines 211-231 and 128-159: the outcome of validating the parsed value;
\* "ok" or the exception raised
ValidationError(resp) ==
    LET d == resp.d IN
    CASE resp.j \in {"number", "null"} -> "TypeError"
      [] resp.j \in {"list", "string"} -> "MissingField"
      [] OTHER ->
         IF ~(required_fields \subseteq DOMAIN d) THEN "MissingField"
         ELSE IF ~(d["classification"].t = "str"
                   /\ d["classification"].s \in valid_classifications)
              THEN "InvalidClassification"
         ELSE IF ~(IsNumber(d["confidence"])
                   /\ 2 * ConfidenceMin <= Twice(d["confidence"])
                   /\ Twice(d["confidence"]) <= 2 * ConfidenceMax)
              THEN "ConfidenceRange"
         ELSE _validate_schema_invariants(d)

\* of the reasoning strings the responses carry ("No new scope.", "Scope is
\* Unclear."), the ones in which line 252 finds one of "unclear", "ambiguous",
\* "missing", "vague", "uncertain" after lower()
HasAmbiguityWord(str) == str \in {"Scope is Unclear."}

\* lines 246-253 raise AttributeError when reasoning has no lower()
MetadataError(d) ==
    IF Truthy(d["trade_relevant"]) /\ d["classification"].s = "CLOSED"
       /\ d["reasoning"].t # "str"
    THEN "AttributeError" ELSE "ok"

\* the exception one attempt ends with (lines 195-253), or "ok"
AttemptError(resp) ==
    IF resp.call = "raise" THEN "TransportError"
    ELSE IF ~ParsesAsJson(resp) THEN "JSONDecodeError"
    ELSE IF ValidationError(resp) # "ok" THEN ValidationError(resp)
    ELSE MetadataError(resp.d)

\* as AttemptNumber, counting from 0 like the loop variable
AttemptNumber_zero_based(i) == i

\* line 240: "attempt": attempt + 1
AttemptNumber(i) == i + 1

JChars(chars) == [t |-> "str", n |-> 0, s |-> "", of |-> chars]

\* as WithMetadata, with the confidence made an integer
WithMetadata_coercing(d, trade, attempt, key) ==
    Put(Put(d, "confidence", JInt(Twice(d["confidence"]) \div 2)), "_metadata", EmptyDict)

\* lines 237-253: the result with its _metadata (latency_ms: the model's clock
\* does not advance during a remote call)
WithMetadata(d, trade, attempt, key) ==
    LET base == [k \in {"trade", "model", "attempt", "latency_ms", "cache_key", "provider"} |->
                    CASE k = "trade" -> JChars(trade)
                      [] k = "model" -> JStr("deepseek-chat")
                      [] k = "attempt" -> JInt(AttemptNumber(attempt))
                      [] k = "latency_ms" -> JInt(0)
                      [] k = "cache_key" -> JHex(key)
                      [] OTHER -> JStr("deepseek")]
        meta == IF ~Truthy(d["trade_relevant"])
                THEN Put(base, "downgrade_reason", JStr("trade_irrelevant"))
                ELSE IF d["classification"].s = "CLOSED" /\ HasAmbiguityWord(d["reasoning"].s)
                     THEN Put(base, "downgrade_reason", JStr("ambiguous_language"))
                     ELSE base
    IN  Put(d, "_metadata", meta)

(***************************************************************************)
(* ResultCache.  One file per key: [st, text].  st is "absent"; "corrupt"  *)
(* (text that json.load rejects with JSONDecodeError: empty, truncated,    *)
(* trailing data); "undecodable" (bytes that are not UTF-8); "list",       *)
(* "string", "number", "null" (a JSON value that is not an object); or     *)
(* "json" (an object).  text is the serialized dict, a set of <<member     *)
(* name, value>> with the nested _metadata object serialized the same way; *)
(* for a corrupt file, the members whose bytes the file holds parts of.    *)
(***************************************************************************)
NoFile == [st |-> "absent", text |-> {}]
CorruptFile == [st |-> "corrupt", text |-> {}]
UndecodableFile == [st |-> "undecodable", text |-> {}]
JsonValueFile(j) == [st |-> j, text |-> {}]

\* as json_dump, leaving the members of a nested object out
json_dump_flat(d) ==
    {<<k, IF k = "_metadata" THEN [object |-> {}] ELSE [value |-> d[k]]>> : k \in DOMAIN d}

\* json.dump, line 91
json_dump(d) ==
    {<<k, IF k = "_metadata"
          THEN [object |-> {<<m, d[k][m]>> : m \in DOMAIN d[k]}]
          ELSE [value |-> d[k]]>> : k \in DOMAIN d}
\* json.load, line 47
Member(text, k) == (CHOOSE p \in text : p[1] = k)[2]
json_load(text) ==
    [k \in {p[1] : p \in text} |->
        IF k = "_metadata"
        THEN [m \in {q[1] : q \in Member(text, k).object} |-> Member(Member(text, k).object, m)]
        ELSE Member(text, k).value]

\* as Expired, with an entry as old as the ttl already expired
Expired_at_ttl(age2) == age2 >= 2 * Ttl

\* line 53: age > self.ttl_seconds, on twice the age
Expired(age2) == age2 > 2 * Ttl

None == [some |-> FALSE, d |-> EmptyDict]
Some(d) == [some |-> TRUE, d |-> d]

\* as Unlink, removing every file of the directory
Unlink_all(fs, key) == [k \in DOMAIN fs |-> NoFile]

\* as Unlink, leaving the file in place
Unlink_nothing(fs, key) == fs

\* cache_file.unlink(), lines 55 and 72
Unlink(fs, key) == [fs EXCEPT ![key] = NoFile]

\* as MarkHit, with the attempt number set again
MarkHit_resetting_attempt(meta, age2) ==
    Put(Put(Put(meta, "cache_hit", JBool(TRUE)), "cache_age_seconds", JInt(age2 \div 2)),
        "attempt", JInt(1))

\* as MarkHit, without the cache_hit member
MarkHit_age_only(meta, age2) == Put(meta, "cache_age_seconds", JInt(age2 \div 2))

\* lines 65-66: the two members get adds to _metadata; age2 is twice the age
MarkHit(meta, age2) ==
    Put(Put(meta, "cache_hit", JBool(TRUE)), "cache_age_seconds", JInt(age2 \div 2))

\* as ResultCache_get, taking an entry without a timestamp as written now
ResultCache_get_unstamped_fresh(fs, key, t) ==
    IF fs[key].st # "json" THEN [ret |-> None, files |-> fs, exc |-> "none"]
    ELSE LET cached == json_load(fs[key].text)
             cached_time == IF "_cache_timestamp" \in DOMAIN cached
                            THEN cached["_cache_timestamp"] ELSE JInt(t)
             age2 == 2 * t - Twice(cached_time)
             result == Pop(cached, "_cache_timestamp")
             meta == IF "_metadata" \in DOMAIN result THEN result["_metadata"] ELSE EmptyDict
         IN  IF Expired(age2)
             THEN [ret |-> None, files |-> Unlink(fs, key), exc |-> "none"]
             ELSE [ret |-> Some(Put(result, "_metadata", MarkHit(meta, age2))), files |-> fs,
                   exc |-> "none"]

\* as ResultCache_get, treating every entry as expired
ResultCache_get_evicting(fs, key, t) ==
    [ret |-> None, files |-> Unlink(fs, key), exc |-> "none"]

\* ResultCache.get: [ret, files, exc], the value returned, the files afterwards
\* and the exception that left get ("none": it returned).  Only
\* json.JSONDecodeError and OSError are caught (line 70).
ResultCache_get(fs, key, t) ==
    IF fs[key].st = "absent" THEN [ret |-> None, files |-> fs, exc |-> "none"]
    ELSE IF fs[key].st = "corrupt"
         THEN [ret |-> None, files |-> Unlink(fs, key), exc |-> "none"]
    ELSE IF fs[key].st = "undecodable"
         THEN [ret |-> None, files |-> fs, exc |-> "UnicodeDecodeError"]
    ELSE IF fs[key].st # "json"
         THEN [ret |-> None, files |-> fs, exc |-> "AttributeError"]
    ELSE LET cached == json_load(fs[key].text)
             cached_time == IF "_cache_timestamp" \in DOMAIN cached
                            THEN cached["_cache_timestamp"] ELSE JInt(0)
             age2 == 2 * t - Twice(cached_time)
             result == Pop(cached, "_cache_timestamp")
             meta == IF "_metadata" \in DOMAIN result THEN result["_metadata"] ELSE EmptyDict
             marked == MarkHit(meta, age2)
         IN  IF ~IsNumber(cached_time)
             THEN [ret |-> None, files |-> fs, exc |-> "TypeError"]
             ELSE IF Expired(age2)
             THEN [ret |-> None, files |-> Unlink(fs, key), exc |-> "none"]
             ELSE [ret |-> Some(Put(result, "_metadata", marked)), files |-> fs,
                   exc |-> "none"]

\* as ArgumentAfterSet, with the timestamp written into the caller's dict
ArgumentAfterSet_in_place(result, t) == Put(result, "_cache_timestamp", JFloatHalves(2 * t))

\* lines 86-87: set adds the timestamp to result.copy(); the dict the caller
\* passed, which classify_update returns next, is as it was
ArgumentAfterSet(result, t) == result

\* as ResultCache.set, without the write
ResultCache_set_without_write(fs, key, result, t, io) == fs

\* ResultCache.set: the files afterwards.  io is what the storage does: "ok",
\* "open_fails" (the file is left as it was) or "write_fails" (open truncated
\* the file and json.dump raised OSError part-way); OSError is swallowed.
ResultCache_set(fs, key, result, t, io) ==
    LET cached_result == Put(result, "_cache_timestamp", JFloatHalves(2 * t))
    IN  CASE io = "ok" -> [fs EXCEPT ![key] = [st |-> "json", text |-> json_dump(cached_result)]]
          [] io = "write_fails" -> [fs EXCEPT ![key] = CorruptFile]
          [] OTHER -> fs

\* as ResultCache_clear, unlinking only the files that hold an object
ResultCache_clear_readable_only(fs) ==
    [count |-> Cardinality({k \in DOMAIN fs : fs[k].st = "json"}),
     files |-> [k \in DOMAIN fs |-> IF fs[k].st = "json" THEN NoFile ELSE fs[k]]]

\* ResultCache.clear: the number of files unlinked and the files afterwards
ResultCache_clear(fs) ==
    [count |-> Cardinality({k \in DOMAIN fs : fs[k].st # "absent"}),
     files |-> [k \in DOMAIN fs |-> NoFile]]

\* f.stat().st_size, in serialized members: a file that holds no member of an
\* object holds one value, or nothing when open() truncated it
st_size(file) ==
    IF file.st \in {"json", "corrupt"} THEN Cardinality(file.text) ELSE 1

RECURSIVE SumSizes(_, _)
SumSizes(fs, ks) ==
    IF ks = {} THEN 0
    ELSE LET k == CHOOSE x \in ks : TRUE IN st_size(fs[k]) + SumSizes(fs, ks \ {k})

SetMin(S) == CHOOSE x \in S : \A y \in S : x <= y
SetMax(S) == CHOOSE x \in S : \A y \in S : x >= y

\* lines 127-134: the exceptions the loop over the files can end with; only
\* json.JSONDecodeError and OSError are caught, and `in` needs an iterable
StatsLoopRaises(fs) ==
    {"UnicodeDecodeError" : k \in {x \in DOMAIN fs : fs[x].st = "undecodable"}}
    \cup {"TypeError" : k \in {x \in DOMAIN fs : fs[x].st \in {"number", "null"}}}

\* the timestamps list of line 125, for a loop that ended normally
StatsTimestamps(fs) ==
    {json_load(fs[k].text)["_cache_timestamp"] :
        k \in {x \in DOMAIN fs : /\ fs[x].st = "json"
                                  /\ "_cache_timestamp" \in DOMAIN json_load(fs[x].text)}}

\* ResultCache.stats once the loop over the files ended normally: [exc, d], the
\* dict returned, or the TypeError of line 141 on a timestamp that is no number
ResultCache_stats(fs, t) ==
    LET cache_files == {k \in DOMAIN fs : fs[k].st # "absent"}
        timestamps == StatsTimestamps(fs)
        times2 == {Twice(v) : v \in timestamps}
    IN  IF cache_files = {}
        THEN [exc |-> "none", d |-> [entries |-> 0, size_bytes |-> 0]]
        ELSE IF \E v \in timestamps : ~IsNumber(v)
        THEN [exc |-> "TypeError", d |-> [entries |-> 0]]
        ELSE [exc |-> "none",
              d |-> [entries |-> Cardinality(cache_files),
                     size_bytes |-> SumSizes(fs, cache_files),
                     oldest_age_seconds |->
                        IF timestamps # {} THEN (2 * t - SetMin(times2)) \div 2 ELSE 0,
                     newest_age_seconds |->
                        IF timestamps # {} THEN (2 * t - SetMax(times2)) \div 2 ELSE 0]]

\* as SetCaught, with no except clause
SetCaught_nothing(err) == FALSE

\* line 92: except OSError
SetCaught(err) == err = "OSError"

\* the exception that leaves set ("ok": it returned), lines 89-94
SetError(io) ==
    LET raised == IF io = "ok" THEN "ok" ELSE "OSError"
    IN  IF SetCaught(raised) THEN "ok" ELSE raised

(***************************************************************************)
(* Raw responses.                                                          *)
(***************************************************************************)
\* the dict a response carries: the six fields but the ones left out
Payload(rel, cls, conf, reas, leftOut) ==
    [k \in required_fields \ leftOut |->
        CASE k = "trade_relevant" -> rel
          [] k = "classification" -> cls
          [] k = "confidence" -> conf
          [] k = "reasoning" -> reas
          [] k = "risk_note" -> JStr("Attachment not seen.")
          [] OTHER -> JStr("Request the attachment.")]

\* what the remote model answers to a classify_update call: a response of each
\* failure class, and three that are accepted
Responses ==
    {TransportFailure,
     Text("none", "", "malformed", EmptyDict),
     Text("md", "js", "dict", Payload(JBool(FALSE), JStr("CLOSED"), JInt(92), JStr("No new scope."), {})),
     Text("none", "", "list", EmptyDict),
     Text("none", "", "number", EmptyDict),
     Text("none", "", "dict", Payload(JBool(TRUE), JStr("CLOSED"), JInt(50), JStr("No new scope."), {"risk_note"})),
     Text("none", "", "dict", Payload(JBool(TRUE), JStr("CONTSTABLE"), JInt(50), JStr("No new scope."), {})),
     Text("none", "", "dict", Payload(JBool(FALSE), JStr("CLOSED"), JInt(101), JStr("No new scope."), {})),
     Text("none", "", "dict", Payload(JBool(FALSE), JStr("SOFT_OPEN"), JInt(50), JStr("No new scope."), {})),
     Text("none", "", "dict", Payload(JBool(TRUE), JStr("CONTESTABLE"), JInt(95), JStr("No new scope."), {})),
     Text("none", "", "dict", Payload(JBool(TRUE), JStr("SOFT_OPEN"), JInt(76), JStr("No new scope."), {})),
     Text("none", "", "dict", Payload(JBool(TRUE), JStr("CLOSED"), JInt(50), JNull, {})),
     Text("none", "", "dict", Payload(JBool(FALSE), JStr("CLOSED"), JInt(92), JStr("No new scope."), {})),
     Text("md", "json", "dict", Payload(JBool(TRUE), JStr("CONTESTABLE"), JInt(80), JStr("No new scope."), {})),
     Text("none", "", "dict", Payload(JBool(TRUE), JStr("CLOSED"), JFloatHalves(121), JStr("Scope is Unclear."), {}))}

(***************************************************************************)
(* State.                                                                  *)
(***************************************************************************)
VARIABLES
    max_retries,   \* self.max_retries
    enable_cache,  \* whether self.cache is a ResultCache
    now,           \* time.time()
    files,         \* the cache directory: key -> file
    pc,            \* "idle", or "attempting" inside classify_update's loop
    req,           \* the arguments of the current (or last) classify_update
    attempt,       \* the loop variable
    calls,         \* _call_llm calls made by this classify_update
    nfail,         \* attempts of this classify_update that raised
    sleeps,        \* the time.sleep arguments of this classify_update, in order
    resp,          \* response_text of the last _call_llm (TransportFailure: it raised)
    lastErr,       \* the exception e bound by the except clause
    wrote,         \* what cache.set did in this classify_update ("none": not called)
    looked,        \* whether this classify_update called cache.get
    ret,           \* how the last classify_update ended
    nreq,          \* classify_update calls started
    vin,           \* validation alone: the raw response text
    vout,          \* validation alone: "pending", then "accepted" or the exception
    cop,           \* ResultCache used directly: the last call, its arguments and time
    cres,          \* ResultCache used directly: what the last get returned
    cinfo,         \* ResultCache used directly: how the last call ended, what
                   \* stats or clear returned, the keys whose file it unlinked
    fp,            \* _cache_key used directly: two (trade, update_text) argument
                   \* pairs and the keys returned for them
    proof,         \* a DecisionProof: its reasoning_chain, validation_checks,
                   \* inputs, outputs and metadata
    pcalls,        \* the calls made on the DecisionProof, in order
    pres,          \* how the last classify_with_proof ended
    feas,          \* calculate_feasibility: its arguments and what it returned
    bitems,       \* classify_batch: updates
    bprog,         \* classify_batch: show_progress
    bresults,      \* classify_batch: results
    bret,          \* classify_batch: "none", "running", "returned" or the exception
    thr            \* callers using one ResultCache concurrently: each one's
                   \* call, position in it and open file

configVars == <<max_retries, enable_cache>>
callVars == <<pc, req, attempt, calls, nfail, sleeps, resp, lastErr, wrote, looked, ret, nreq>>
auditVars == <<proof, pcalls, pres, feas>>
directVars == <<vin, vout, cop, cres, cinfo, fp, auditVars>>
batchVars == <<bitems, bprog, bresults, bret>>
vars == <<max_retries, enable_cache, now, files, pc, req, attempt, calls, nfail, sleeps,
          resp, lastErr, wrote, looked, ret, nreq, vin, vout, cop, cres, cinfo, fp,
          proof, pcalls, pres, feas,
          bitems, bprog, bresults, bret, thr>>

RECURSIVE Pow2(_)
Pow2(n) == IF n <= 0 THEN 1 ELSE 2 * Pow2(n - 1)

\* time.sleep(2 ** attempt) of all non-final attempts of a failing call
Backoff(m) == IF m <= 0 THEN 0 ELSE Pow2(m - 1) - 1

NoRet == [kind |-> "none", result |-> EmptyDict, msg |-> "", attempts |-> 0, cause |-> "none"]
Returned(d) == [kind |-> "returned", result |-> d, msg |-> "", attempts |-> 0, cause |-> "none"]
Raised(kind, msg, n, cause) ==
    [kind |-> kind, result |-> EmptyDict, msg |-> msg, attempts |-> n, cause |-> cause]

NoCall == [op |-> "none", key |-> <<>>, arg |-> EmptyDict, at |-> 0]
NoInfo == [exc |-> "none", d |-> EmptyDict, count |-> 0, unlinked |-> {}, found |-> "none"]

\* the callers that share one ResultCache
Procs == {1, 2}
IdleThread == [op |-> "none", pc |-> "idle", key |-> <<>>, arg |-> EmptyDict,
               fd |-> "closed", seen |-> NoFile, at |-> 0, ret |-> None, exc |-> "none",
               todo |-> {}]

\* no classify_update has been called
InitCalls ==
    /\ pc = "idle"
    /\ req = [text |-> <<>>, trade |-> <<>>]
    /\ attempt = 0
    /\ calls = 0
    /\ nfail = 0
    /\ sleeps = <<>>
    /\ resp = NoResponse
    /\ lastErr = "none"
    /\ wrote = "none"
    /\ looked = FALSE
    /\ ret = NoRet
    /\ nreq = 0

\* an empty cache directory
InitStore ==
    /\ now = 0
    /\ files = [k \in Keys |-> NoFile]

\* DecisionProof.__init__, lines 30-36 (decision_type and timestamp are set
\* once and read by to_dict only)
NewProof == [inputs |-> EmptyDict, outputs |-> EmptyDict, reasoning_chain |-> <<>>,
             metadata |-> EmptyDict, validation_checks |-> <<>>]
NoProofResult == [kind |-> "none", result |-> EmptyDict]
NoFeasibility == [done |-> FALSE]

\* no DecisionProof call, no classify_with_proof, no calculate_feasibility yet
InitAudit ==
    /\ proof = NewProof
    /\ pcalls = <<>>
    /\ pres = NoProofResult
    /\ feas = NoFeasibility

\* _cache_key has not been called
NoFingerprint == [a |-> <<<<>>, <<>>>>, b |-> <<<<>>, <<>>>>, ka |-> <<>>, kb |-> <<>>,
                  done |-> FALSE]

InitDirect ==
    /\ vin = NoResponse
    /\ vout = "pending"
    /\ cop = NoCall
    /\ cres = None
    /\ cinfo = NoInfo
    /\ fp = NoFingerprint
    /\ InitAudit

\* no classify_batch has been called
InitBatch ==
    /\ bitems = <<>>
    /\ bprog = FALSE
    /\ bresults = <<>>
    /\ bret = "none"

\* no caller is inside a ResultCache call
InitThreads == thr = [p \in Procs |-> IdleThread]

Init ==
    /\ max_retries \in 0..MaxRetries
    /\ enable_cache \in BOOLEAN
    /\ InitStore
    /\ InitCalls
    /\ InitDirect
    /\ InitBatch
    /\ InitThreads

\* as IsCacheHit, never taking the early return
IsCacheHit_never(got) == FALSE

\* line 191: "if cached:" (a dict get returns holds _metadata, so it is truthy)
IsCacheHit(got) == got.ret.some

\* as HasCache, with a ResultCache whatever the flag
HasCache_always(flag) == TRUE

\* lines 91, 189 and 256: self.cache is a ResultCache when enable_cache is
\* set and None otherwise, and "if self.cache:" guards get and set
HasCache(flag) == flag

\* as LoopRuns, with a first iteration whatever max_retries is
LoopRuns_at_least_once(retries) == TRUE

\* line 194: range(self.max_retries) has no element when max_retries <= 0
LoopRuns(retries) == retries > 0

\* classify_update, lines 180-192 and the loop entry: the trade check, the
\* cache lookup, and the return or raise when no attempt is made
BeginCall(r) ==
    /\ pc = "idle"
    /\ nreq < MaxRequests
    /\ now + Backoff(max_retries) <= MaxTime
    /\ nreq' = nreq + 1
    /\ req' = r
    /\ attempt' = 0
    /\ calls' = 0
    /\ nfail' = 0
    /\ sleeps' = <<>>
    /\ lastErr' = "none"
    /\ wrote' = "none"
    /\ resp' = NoResponse
    /\ UNCHANGED <<configVars, now, vin, vout, cop, cres, cinfo, fp, thr>>
    /\ IF r.trade \notin ValidTrades
       THEN /\ ret' = Raised("ValueError", "Invalid trade", -1, "none")
            /\ pc' = "idle"
            /\ files' = files
            /\ looked' = FALSE
       ELSE LET key == cache_key(r.text, r.trade)
                got == IF HasCache(enable_cache) THEN ResultCache_get(files, key, now)
                       ELSE [ret |-> None, files |-> files, exc |-> "none"]
            IN  /\ files' = got.files
                /\ looked' = HasCache(enable_cache)
                /\ IF got.exc # "none"
                   THEN ret' = Raised(got.exc, "", -1, got.exc) /\ pc' = "idle"
                   ELSE IF IsCacheHit(got)
                   THEN ret' = Returned(got.ret.d) /\ pc' = "idle"
                   ELSE IF ~LoopRuns(max_retries)
                        THEN /\ ret' = Raised("ClassificationError",
                                              "Unexpected retry loop exit", -1, "none")
                             /\ pc' = "idle"
                        ELSE ret' = NoRet /\ pc' = "attempting"

\* classify_update called by itself
Begin(r) == BeginCall(r) /\ UNCHANGED auditVars

\* as Caught, with only the json.JSONDecodeError clause
Caught_parse_errors_only(err) == err = "JSONDecodeError"

\* lines 261 and 266: whether one of the two except clauses catches the
\* exception (json.JSONDecodeError, then Exception)
Caught(err) == err = "JSONDecodeError" \/ err # "JSONDecodeError"

\* as IsFinalAttempt, comparing with max_retries itself
IsFinalAttempt_off_by_one(i, retries) == i = retries

\* as IsFinalAttempt, giving up at the first failure
IsFinalAttempt_no_retry(i, retries) == TRUE

\* as IsFinalAttempt, never raising from the except clauses
IsFinalAttempt_never(i, retries) == FALSE

\* lines 262 and 267
IsFinalAttempt(i, retries) == i = retries - 1

\* as BackoffDelay, from the 1-based attempt number
BackoffDelay_one_based(i) == Pow2(i + 1)

\* lines 264 and 269: the argument of time.sleep
BackoffDelay(i) == Pow2(i)

\* one iteration of the loop, lines 194-271
AttemptCall(text, io) ==
    /\ pc = "attempting"
    /\ calls' = calls + 1
    /\ resp' = text
    /\ UNCHANGED <<configVars, req, nreq, looked, vin, vout, cop, cres, cinfo, fp, thr>>
    /\ LET key == cache_key(req.text, req.trade)
           result == WithMetadata(text.d, req.trade, attempt, key)
           sets == AttemptError(text) = "ok" /\ HasCache(enable_cache)
           err == IF AttemptError(text) = "ok" /\ HasCache(enable_cache)
                  THEN SetError(io) ELSE AttemptError(text)
       IN  /\ files' = IF sets THEN ResultCache_set(files, key, result, now, io) ELSE files
           /\ wrote' = IF sets THEN io ELSE wrote
           /\ IF err = "ok"
              THEN /\ ret' = Returned(IF sets THEN ArgumentAfterSet(result, now) ELSE result)
                   /\ pc' = "idle"
                   /\ lastErr' = "none"
                   /\ UNCHANGED <<now, attempt, nfail, sleeps>>
              ELSE /\ nfail' = nfail + 1
                   /\ lastErr' = err
                   /\ IF ~Caught(err)
                      THEN /\ ret' = Raised(err, "", -1, err)
                           /\ pc' = "idle"
                           /\ UNCHANGED <<now, attempt, sleeps>>
                      ELSE IF IsFinalAttempt(attempt, max_retries)
                      THEN /\ ret' = Raised("ClassificationError",
                                            IF err = "JSONDecodeError"
                                            THEN "Failed to parse JSON after"
                                            ELSE "Classification failed after",
                                            max_retries, err)
                           /\ pc' = "idle"
                           /\ UNCHANGED <<now, attempt, sleeps>>
                      ELSE /\ sleeps' = Append(sleeps, BackoffDelay(attempt))
                           /\ now' = now + BackoffDelay(attempt)
                           /\ attempt' = attempt + 1
                           /\ IF attempt + 1 < max_retries
                              THEN UNCHANGED <<pc, ret>>
                              ELSE /\ ret' = Raised("ClassificationError",
                                                    "Unexpected retry loop exit", -1, "none")
                                   /\ pc' = "idle"

\* an iteration of a classify_update called by itself
Attempt(text, io) == AttemptCall(text, io) /\ UNCHANGED auditVars

\* time passes between calls
Tick ==
    /\ pc = "idle"
    /\ now < MaxTime
    /\ now' = now + 1
    /\ UNCHANGED <<configVars, files, callVars, directVars, batchVars, thr>>

Next ==
    \/ \E r \in Requests : Begin(r) /\ UNCHANGED batchVars
    \/ \E text \in Responses, io \in {"ok", "open_fails", "write_fails"} :
          Attempt(text, io) /\ UNCHANGED batchVars
    \/ Tick

Spec == Init /\ [][Next]_vars

(***************************************************************************)
(* Properties of the pipeline.                                             *)
(***************************************************************************)
IsHit(d) == "_metadata" \in DOMAIN d /\ "cache_hit" \in DOMAIN d["_metadata"]
            /\ d["_metadata"]["cache_hit"] = JBool(TRUE)
Fields(d) == [k \in required_fields \cap DOMAIN d |-> d[k]]
\* a dict without what ResultCache adds to it
Unmarked(d) ==
    LET e == Pop(d, "_cache_timestamp")
    IN  IF "_metadata" \in DOMAIN e
        THEN Put(e, "_metadata", Pop(Pop(e["_metadata"], "cache_hit"), "cache_age_seconds"))
        ELSE e
ReqKey(r) == cache_key(r.text, r.trade)
\* twice the age at time t of the entry stored for key k
Age2(k, t) == 2 * t - Twice(json_load(files[k].text)["_cache_timestamp"])
Readable(k) == files[k].st = "json"
RECURSIVE SumSeq(_)
SumSeq(q) == IF q = <<>> THEN 0 ELSE Head(q) + SumSeq(Tail(q))

DomainInvariants(d) ==
    /\ required_fields \subseteq DOMAIN d
    /\ d["classification"].t = "str"
    /\ d["classification"].s \in {"CLOSED", "SOFT_OPEN", "CONTESTABLE"}
    /\ d["confidence"].t \in {"int", "float", "bool"}
    /\ 0 <= Twice(d["confidence"]) /\ Twice(d["confidence"]) <= 200
    /\ ~Truthy(d["trade_relevant"]) => d["classification"].s = "CLOSED"
    /\ d["classification"].s = "CONTESTABLE" => Twice(d["confidence"]) <= 170
    /\ d["classification"].s = "SOFT_OPEN" => Twice(d["confidence"]) <= 150

\* C1: every Decision a call returned (fresh or from the cache) and every
\* entry the cache stores satisfies the domain invariants: not trade-relevant
\* implies CLOSED, CONTESTABLE implies confidence <= 85, SOFT_OPEN implies
\* confidence <= 75, the classification is one of the three, the confidence is
\* within 0..100.
C1_DecisionsSatisfyInvariants ==
    /\ ret.kind = "returned" => DomainInvariants(ret.result)
    /\ \A k \in Keys : Readable(k) => DomainInvariants(json_load(files[k].text))

\* a CONTESTABLE Decision was served from the cache
C1_Witness ==
    /\ ret.kind = "returned" /\ IsHit(ret.result)
    /\ ret.result["classification"].s = "CONTESTABLE"
    /\ Readable(ReqKey(req))

\* C3: with max_retries >= 1 a call never makes more than max_retries remote
\* calls; while every attempt so far failed it is still attempting until the
\* max_retries-th failure, and then it has raised ClassificationError
\* reporting max_retries attempts, after exactly max_retries remote calls.
C3_RetryTermination ==
    max_retries >= 1 =>
        /\ calls <= max_retries
        /\ pc = "attempting" => calls < max_retries /\ nfail = calls
        /\ (pc = "idle" /\ calls > 0 /\ nfail = calls) =>
              /\ ret.kind = "ClassificationError"
              /\ calls = max_retries
              /\ ret.attempts = max_retries
        /\ ret.kind = "ClassificationError" => calls = max_retries /\ nfail = max_retries

\* three attempts failed and the call raised
C3_Witness ==
    /\ max_retries = 3 /\ calls = 3 /\ nfail = 3
    /\ ret.kind = "ClassificationError" /\ ret.attempts = 3

C5_TerminalErrorOnly ==
    /\ [](max_retries >= 1 /\ ret.kind = "ClassificationError" =>
            /\ nfail = max_retries /\ calls = max_retries
            /\ ret.attempts = calls
            /\ ret.cause = AttemptError(resp) /\ ret.cause # "ok"
            /\ ret.msg \in {"Failed to parse JSON after", "Classification failed after"})
    /\ []((ret.kind \notin {"none", "returned", "ClassificationError"}) => calls = 0)
    /\ [][(pc = "attempting" /\ nfail' = nfail + 1 /\ nfail' < max_retries) =>
             pc' = "attempting" /\ ret' = NoRet /\ ret = NoRet]_vars

\* the call raised after a last attempt that violated the CONTESTABLE ceiling
C5_Witness ==
    /\ ret.kind = "ClassificationError" /\ max_retries = 3
    /\ ret.cause = "InvariantContestable" /\ nfail = 3

\* C6: what follows a failed attempt depends only on the number of attempts
\* made and on max_retries, whatever the exception was (transport, parse,
\* missing field, enum, range, invariant): before the budget is used up the
\* call sleeps 2^(attempts made - 1) and attempts again, otherwise it raises
\* ClassificationError without sleeping.
C6_UniformRetry ==
    [][(pc = "attempting" /\ calls' = calls + 1 /\ AttemptError(resp') # "ok") =>
          /\ nfail' = nfail + 1
          /\ IF calls' < max_retries
             THEN /\ pc' = "attempting"
                  /\ attempt' = attempt + 1
                  /\ sleeps' = Append(sleeps, Pow2(calls' - 1))
                  /\ now' = now + Pow2(calls' - 1)
                  /\ ret' = NoRet
             ELSE /\ pc' = "idle"
                  /\ ret'.kind = "ClassificationError"
                  /\ ret'.attempts = max_retries
                  /\ sleeps' = sleeps
                  /\ now' = now]_vars

\* a transport failure was retried after a sleep, as an invariant violation is
C6_Witness ==
    /\ pc = "attempting" /\ lastErr = "TransportError" /\ sleeps = <<1, 2>>

\* C7: the i-th sleep of a call is 2^(i-1); a call has slept once per failed
\* attempt except the max_retries-th, so not after the final failed attempt,
\* not after the accepted attempt and not on a cache hit; a call in which all
\* max_retries >= 1 attempts failed slept 2^(max_retries-1) - 1 in total.
C7_BackoffSchedule ==
    /\ \A i \in 1..Len(sleeps) : sleeps[i] = Pow2(i - 1)
    /\ Len(sleeps) = (IF nfail < max_retries \/ max_retries = 0 THEN nfail ELSE max_retries - 1)
    /\ (ret.kind = "returned" /\ IsHit(ret.result)) => sleeps = <<>>
    /\ (max_retries >= 1 /\ ret.kind = "ClassificationError") =>
          SumSeq(sleeps) = Pow2(max_retries - 1) - 1

\* a call of three failed attempts slept 1 and 2
C7_Witness ==
    /\ ret.kind = "ClassificationError" /\ max_retries = 3 /\ sleeps = <<1, 2>>

\* C8: a classify_update that finds a readable entry of age <= ttl for its
\* key returns that entry's Decision and makes no remote call, no sleep and
\* no cache write (the files stay as they were).
C8_CacheHitShortCircuits ==
    [][(nreq' = nreq + 1 /\ enable_cache /\ req'.trade \in ValidTrades
        /\ Readable(ReqKey(req')) /\ Age2(ReqKey(req'), now) <= 2 * Ttl) =>
          /\ ret'.kind = "returned"
          /\ Unmarked(ret'.result) = Unmarked(json_load(files[ReqKey(req')].text))
          /\ pc' = "idle"
          /\ calls' = 0
          /\ sleeps' = <<>>
          /\ now' = now
          /\ wrote' = "none"
          /\ files' = files]_vars

\* a call was served from the cache, from an entry as old as the ttl
C8_Witness ==
    /\ ret.kind = "returned" /\ IsHit(ret.result) /\ calls = 0 /\ nreq = 2
    /\ ret.result["_metadata"]["cache_age_seconds"] = JInt(Ttl)

\* C9: after a call succeeded on a miss with the cache enabled and the
\* write done, the entry for its key holds the returned Decision; and a second
\* call with the same text and trade, made while that entry's age is <= ttl,
\* returns the same decision fields with cache_hit = true and without a
\* remote call.
C9_WriteBackThenHit ==
    /\ [](ret.kind = "returned" /\ ~IsHit(ret.result) /\ enable_cache /\ wrote = "ok" =>
            /\ Readable(ReqKey(req))
            /\ Unmarked(json_load(files[ReqKey(req)].text)) = ret.result)
    /\ [][(ret.kind = "returned" /\ ~IsHit(ret.result) /\ enable_cache /\ wrote = "ok"
           /\ nreq' = nreq + 1 /\ req' = req
           /\ Age2(ReqKey(req), now) <= 2 * Ttl) =>
             /\ ret'.kind = "returned"
             /\ IsHit(ret'.result)
             /\ Fields(ret'.result) = Fields(ret.result)
             /\ calls' = 0]_vars

\* the second call of a pair with the same text and trade was a hit
C9_Witness ==
    /\ nreq = 2 /\ calls = 0 /\ ret.kind = "returned" /\ IsHit(ret.result)
    /\ ret.result["_metadata"]["attempt"] = JInt(2)

\* C13: when the response of an attempt is accepted and the write of
\* cache.set then fails (the file cannot be opened, or the write breaks off),
\* the call returns that response's Decision: it does not raise, the attempt
\* is not counted as failed, nothing sleeps and no further remote call is made.
C13_WriteFailureNonFatal ==
    [][(pc = "attempting" /\ calls' = calls + 1 /\ AttemptError(resp') = "ok"
        /\ wrote' \in {"open_fails", "write_fails"}) =>
          /\ ret'.kind = "returned"
          /\ Fields(ret'.result) = resp'.d
          /\ ret'.result["_metadata"]["attempt"] = JInt(calls')
          /\ pc' = "idle"
          /\ nfail' = nfail
          /\ lastErr' = "none"
          /\ sleeps' = sleeps
          /\ now' = now]_vars

\* the second attempt was accepted, its write broke off, and the call returned
C13_Witness ==
    /\ ret.kind = "returned" /\ wrote = "write_fails" /\ calls = 2 /\ nfail = 1
    /\ files[ReqKey(req)] = CorruptFile /\ pc = "idle"

\* C18: a classify_update whose trade is not Electrical, HVAC or Plumbing
\* raises ValueError "Invalid trade" at once: no cache lookup, no remote call,
\* no sleep, no cache write, the files as they were, and the error is the
\* ValueError itself, not a ClassificationError.
C18_InvalidTradeRejected ==
    [][(nreq' = nreq + 1 /\ req'.trade \notin {Electrical, HVAC, Plumbing}) =>
          /\ ret' = Raised("ValueError", "Invalid trade", -1, "none")
          /\ pc' = "idle"
          /\ ~looked'
          /\ calls' = 0
          /\ sleeps' = <<>>
          /\ wrote' = "none"
          /\ now' = now
          /\ files' = files]_vars

\* a Roofing request was refused by a classifier whose cache holds an entry
C18_Witness ==
    /\ ret.kind = "ValueError" /\ req.trade = Roofing /\ nreq = 2 /\ calls = 0
    /\ enable_cache /\ \E k \in Keys : Readable(k)

(***************************************************************************)
(* Validation alone (lines 203-231), over a wide set of response texts.    *)
(***************************************************************************)
RelevantValues == {JBool(TRUE), JBool(FALSE), JNull, JStr("false"), JInt(0)}
ClassificationValues ==
    {JStr(c) : c \in valid_classifications \cup {"CONTSTABLE", "closed"}} \cup {JNull}
ConfidenceValues ==
    {JInt(n) : n \in {-1, 0, 75, 76, 85, 86, 90, 100, 101}}
    \cup {JFloatHalves(h) : h \in {-1, 101, 151, 171, 200, 201}}
    \cup {JBool(TRUE), JStr("85"), JNull}
ReasoningValues == {JStr("No new scope."), JNull}
Fences == {<<"none", "">>, <<"md", "">>, <<"md", "json">>, <<"md", "js">>}

RawTexts ==
    {Text(fl[1], fl[2], j, EmptyDict) :
        fl \in Fences, j \in {"malformed", "list", "number", "null", "string"}}
    \cup {Text(fl[1], fl[2], "dict", Payload(rel, cls, conf, reas, leftOut)) :
            fl \in Fences, rel \in RelevantValues, cls \in ClassificationValues,
            conf \in ConfidenceValues, reas \in ReasoningValues,
            leftOut \in {{}} \cup {{f} : f \in required_fields}}

InitValidate ==
    /\ max_retries = MaxRetries
    /\ enable_cache = TRUE
    /\ InitStore
    /\ InitCalls
    /\ vin \in RawTexts
    /\ vout = "pending"
    /\ cop = NoCall
    /\ cres = None
    /\ cinfo = NoInfo
    /\ fp = NoFingerprint
    /\ InitAudit
    /\ InitBatch
    /\ InitThreads

\* lines 203-231 applied to vin
Validate ==
    /\ vout = "pending"
    /\ vout' = IF ~ParsesAsJson(vin) THEN "JSONDecodeError"
               ELSE IF ValidationError(vin) = "ok" THEN "accepted"
               ELSE ValidationError(vin)
    /\ UNCHANGED <<configVars, now, files, callVars, vin, cop, cres, cinfo, fp, auditVars, batchVars, thr>>

SpecValidate == InitValidate /\ [][Validate]_vars

\* an integer, or a float with an integral value
IntegerLike(v) == v.t = "int" \/ (v.t = "float" /\ v.n % 2 = 0)

\* C2: validation accepts a response text if and only if it parses as a JSON
\* object, has all six required fields, its classification is CLOSED,
\* SOFT_OPEN or CONTESTABLE, its confidence is an integer-like value in
\* [0,100], and neither domain invariant is violated.
C2_ValidatorAcceptsIff ==
    vout # "pending" =>
        (vout = "accepted" <=>
            /\ ParsesAsJson(vin) /\ vin.j = "dict"
            /\ {"trade_relevant", "classification", "confidence", "reasoning", "risk_note",
                "recommended_action"} \subseteq DOMAIN vin.d
            /\ vin.d["classification"] \in {JStr("CLOSED"), JStr("SOFT_OPEN"), JStr("CONTESTABLE")}
            /\ IntegerLike(vin.d["confidence"])
            /\ 0 <= Twice(vin.d["confidence"]) /\ Twice(vin.d["confidence"]) <= 200
            /\ ~Truthy(vin.d["trade_relevant"]) => vin.d["classification"] = JStr("CLOSED")
            /\ vin.d["classification"] = JStr("CONTESTABLE") => Twice(vin.d["confidence"]) <= 170
            /\ vin.d["classification"] = JStr("SOFT_OPEN") => Twice(vin.d["confidence"]) <= 150)

(***************************************************************************)
(* ResultCache used directly, as tests/test_agent.py does.                 *)
(***************************************************************************)
\* the dicts callers store: Decisions as classify_update builds them, and the
\* bare dict of test_cache_functionality
CacheValues ==
    {WithMetadata(Payload(JBool(FALSE), JStr("CLOSED"), JInt(92), JStr("No new scope."), {}),
                  Electrical, 0, cache_key(<<"a">>, Electrical)),
     WithMetadata(Payload(JBool(TRUE), JStr("CONTESTABLE"), JFloatHalves(161),
                          JStr("Scope is Unclear."), {}),
                  HVAC, 2, cache_key(<<"a">>, HVAC)),
     [k \in {"classification", "confidence"} |->
        IF k = "classification" THEN JStr("CLOSED") ELSE JInt(85)]}

\* the keys whose file a call removed
Removed(before, after) ==
    {k \in DOMAIN before : before[k].st # "absent" /\ after[k].st = "absent"}

\* cache.set(k, d)
CacheSet(k, d, io) ==
    /\ files' = ResultCache_set(files, k, d, now, io)
    /\ cop' = IF io = "ok"
              THEN [op |-> "set", key |-> k, arg |-> ArgumentAfterSet(d, now), at |-> now]
              ELSE [op |-> "set_failed", key |-> k, arg |-> EmptyDict, at |-> now]
    /\ cres' = None
    /\ cinfo' = [NoInfo EXCEPT !.exc = IF SetError(io) = "ok" THEN "none" ELSE SetError(io)]
    /\ UNCHANGED <<configVars, now, callVars, vin, vout, fp, auditVars, batchVars, thr>>

\* cache.get(k)
CacheGet(k) ==
    LET got == ResultCache_get(files, k, now)
    IN  /\ files' = got.files
        /\ cres' = got.ret
        /\ cop' = [op |-> "get", key |-> k, arg |-> EmptyDict, at |-> now]
        /\ cinfo' = [NoInfo EXCEPT !.exc = got.exc, !.unlinked = Removed(files, got.files),
                                   !.found = files[k].st]
        /\ UNCHANGED <<configVars, now, callVars, vin, vout, fp, auditVars, batchVars, thr>>

\* cache.clear()
CacheClear ==
    LET cleared == ResultCache_clear(files)
    IN  /\ files' = cleared.files
        /\ cres' = None
        /\ cop' = [op |-> "clear", key |-> <<>>, arg |-> EmptyDict, at |-> now]
        /\ cinfo' = [NoInfo EXCEPT !.count = cleared.count,
                                   !.unlinked = Removed(files, cleared.files)]
        /\ UNCHANGED <<configVars, now, callVars, vin, vout, fp, auditVars, batchVars, thr>>

\* cache.stats()
CacheStats ==
    /\ cres' = None
    /\ cop' = [op |-> "stats", key |-> <<>>, arg |-> EmptyDict, at |-> now]
    /\ IF StatsLoopRaises(files) # {}
       THEN \E e \in StatsLoopRaises(files) : cinfo' = [NoInfo EXCEPT !.exc = e]
       ELSE cinfo' = [NoInfo EXCEPT !.exc = ResultCache_stats(files, now).exc,
                                    !.d = ResultCache_stats(files, now).d]
    /\ UNCHANGED <<configVars, now, files, callVars, vin, vout, fp, auditVars, batchVars, thr>>

\* time passes, until an entry written at 0 has expired
CacheTick ==
    /\ now <= Ttl
    /\ Tick

InitCache ==
    /\ max_retries = MaxRetries
    /\ enable_cache = TRUE
    /\ InitStore
    /\ InitCalls
    /\ InitDirect
    /\ InitBatch
    /\ InitThreads

NextCache ==
    \/ \E k \in Keys, d \in CacheValues, io \in {"ok", "open_fails", "write_fails"} :
          CacheSet(k, d, io)
    \/ \E k \in Keys : CacheGet(k)
    \/ CacheClear
    \/ CacheStats
    \/ CacheTick

SpecCache == InitCache /\ [][NextCache]_vars

\* a equals d on every field, but for the cache_hit and cache_age_seconds
\* that a's _metadata has in addition
EqualButAnnotation(a, d) ==
    LET meta(x) == IF "_metadata" \in DOMAIN x THEN x["_metadata"] ELSE EmptyDict
    IN  /\ DOMAIN a = DOMAIN d \cup {"_metadata"}
        /\ \A k \in DOMAIN d \ {"_metadata"} : a[k] = d[k]
        /\ DOMAIN meta(a) = DOMAIN meta(d) \cup {"cache_hit", "cache_age_seconds"}
        /\ \A m \in DOMAIN meta(d) : meta(a)[m] = meta(d)[m]

\* C10: a get(k) that follows a set(k, d) whose write was done, while the
\* entry's age is within the ttl, returns a Decision equal to d on every
\* field, ignoring the cache_hit and cache_age_seconds added to _metadata.
C10_CacheRoundTrip ==
    [][(cop.op = "set" /\ cop'.op = "get" /\ cop'.key = cop.key
        /\ now - cop.at <= Ttl) =>
          /\ cres'.some
          /\ EqualButAnnotation(cres'.d, cop.arg)]_vars

\* a get returned the Decision set one ttl earlier
C10_Witness ==
    /\ cop.op = "get" /\ cres.some
    /\ cres.d["_metadata"]["cache_age_seconds"] = JInt(Ttl)
    /\ "attempt" \in DOMAIN cres.d["_metadata"]

\* C11: get(k) returns a Decision exactly when a readable entry for k exists
\* whose age is at most the ttl (an entry exactly as old as the ttl is
\* returned) and then leaves the files alone; on an entry older than the ttl it
\* returns absent and removes that entry and no other; it never raises.
C11_LazyExpiry ==
    [][(cop'.op = "get" /\ now' = now) =>
          LET k == cop'.key IN
          /\ cinfo'.exc = "none"
          /\ cres'.some => (Readable(k) /\ Age2(k, now) <= 2 * Ttl)
          /\ (Readable(k) /\ Age2(k, now) <= 2 * Ttl) => (cres'.some /\ files' = files)
          /\ (Readable(k) /\ Age2(k, now) > 2 * Ttl) =>
                /\ ~cres'.some
                /\ files'[k] = NoFile
                /\ \A other \in Keys \ {k} : files'[other] = files[other]]_vars

\* a get found an entry older than the ttl and removed it, while an entry as
\* old stays stored under the other key
C11_Witness ==
    /\ cop.op = "get" /\ ~cres.some /\ cinfo.found = "json"
    /\ cinfo.unlinked = {cop.key} /\ files[cop.key] = NoFile
    /\ \E other \in Keys \ {cop.key} : Readable(other) /\ Age2(other, now) > 2 * Ttl

\* C14: clear() leaves no file behind and returns the number of files there
\* were, which is the entry count a stats() just before it reported; a stats()
\* right after clear() reports 0 entries and a get right after it is absent.
C14_ClearRemovesAll ==
    /\ [](cop.op = "clear" => \A k \in Keys : files[k] = NoFile)
    /\ [][(cop'.op = "clear" /\ now' = now) =>
             /\ cinfo'.count = Cardinality({k \in Keys : files[k] # NoFile})
             /\ cinfo'.unlinked = {k \in Keys : files[k] # NoFile}
             /\ cinfo'.exc = "none"
             /\ (cop.op = "stats" /\ cop.at = now) => cinfo'.count = cinfo.d.entries]_vars
    /\ [][(cop.op = "clear" /\ cop'.op = "stats") =>
             cinfo'.exc = "none" /\ cinfo'.d.entries = 0]_vars
    /\ [][(cop.op = "clear" /\ cop'.op = "get") =>
             ~cres'.some /\ cinfo'.exc = "none"]_vars

\* a clear() removed two files, one of them left corrupt by a failed write
C14_Witness ==
    /\ cop.op = "clear" /\ cinfo.count = 2 /\ Cardinality(cinfo.unlinked) = 2

\* C15: whatever the cache holds, the empty cache included, the dict stats()
\* returns has the entry count, the total size, the oldest age and the newest
\* age.
C15_StatsFourFields ==
    (cop.op = "stats" /\ cinfo.exc = "none") =>
        {"entries", "size_bytes", "oldest_age_seconds", "newest_age_seconds"}
            \subseteq DOMAIN cinfo.d

(***************************************************************************)
(* A cache directory whose files are damaged behind the cache's back.      *)
(***************************************************************************)
\* what a damaged file can hold: truncated text, bytes that are not UTF-8, a
\* JSON value that is not an object, an object with a timestamp that is no
\* number
DamagedFiles ==
    {CorruptFile, UndecodableFile}
    \cup {JsonValueFile(j) : j \in {"list", "string", "number", "null"}}
    \cup {[st |-> "json",
           text |-> json_dump([k \in {"classification", "_cache_timestamp"} |->
                                 IF k = "classification" THEN JStr("CLOSED") ELSE v])] :
            v \in {JStr("yesterday"), JNull}}

\* the file of key k is overwritten from outside
Damage(k, f) ==
    /\ pc = "idle"
    /\ files' = [files EXCEPT ![k] = f]
    /\ UNCHANGED <<configVars, now, callVars, directVars, batchVars, thr>>

\* the answers of the remote model here: one that fails, one that is accepted
StorageResponses ==
    {TransportFailure,
     Text("none", "", "dict", Payload(JBool(FALSE), JStr("CLOSED"), JInt(92), JStr("No new scope."), {}))}

\* the dict stored directly here
StorageValues ==
    {[k \in {"classification", "confidence"} |->
        IF k = "classification" THEN JStr("CLOSED") ELSE JInt(85)]}

InitStorage ==
    /\ max_retries = 1
    /\ enable_cache = TRUE
    /\ InitStore
    /\ InitCalls
    /\ InitDirect
    /\ InitBatch
    /\ InitThreads

\* a behaviour uses the damaged directory through ResultCache directly, or
\* through classify_update
NextStorage ==
    \/ \E k \in Keys, f \in DamagedFiles : Damage(k, f)
    \/ \E k \in Keys, d \in StorageValues : nreq = 0 /\ CacheSet(k, d, "ok")
    \/ \E k \in Keys : nreq = 0 /\ CacheGet(k)
    \/ nreq = 0 /\ CacheStats
    \/ \E r \in Requests : cop = NoCall /\ Begin(r) /\ UNCHANGED batchVars
    \/ \E text \in StorageResponses, io \in {"ok", "write_fails"} :
          Attempt(text, io) /\ UNCHANGED batchVars
    \/ CacheTick

SpecStorage == InitStorage /\ [][NextStorage]_vars

\* the file holds something other than an object with a numeric timestamp
Invalid(file) ==
    \/ file.st \notin {"absent", "json"}
    \/ /\ file.st = "json"
       /\ "_cache_timestamp" \in DOMAIN json_load(file.text)
       /\ json_load(file.text)["_cache_timestamp"].t \notin {"int", "float"}

\* C12: on a stored entry with invalid content (truncated text, undecodable
\* bytes, a JSON value that is not an object, an object whose timestamp is not
\* a number) get returns absent, raises nothing and removes the file; and a
\* classify_update for that key goes on to its first attempt as on a miss,
\* with the file removed.
C12_CorruptIsAbsent ==
    /\ [][(cop'.op = "get" /\ now' = now /\ Invalid(files[cop'.key])) =>
             /\ cinfo'.exc = "none"
             /\ ~cres'.some
             /\ files'[cop'.key] = NoFile]_vars
    /\ [][(nreq' = nreq + 1 /\ req'.trade \in ValidTrades /\ Invalid(files[ReqKey(req')])) =>
             /\ pc' = "attempting"
             /\ ret' = NoRet
             /\ files'[ReqKey(req')] = NoFile]_vars

\* the timestamps of the entries that are objects with a numeric timestamp
ValidTimes2(fs) ==
    {Twice(json_load(fs[k].text)["_cache_timestamp"]) :
        k \in {x \in DOMAIN fs : fs[x].st = "json" /\ ~Invalid(fs[x])
                                  /\ "_cache_timestamp" \in DOMAIN json_load(fs[x].text)}}

\* C16: stats() leaves every file as it was (expired and invalid ones too),
\* never raises whatever the files hold, and computes the oldest and newest
\* age from the valid entries alone.
C16_StatsReadOnlyTolerant ==
    [][(cop'.op = "stats" /\ now' = now) =>
          /\ files' = files
          /\ cinfo'.exc = "none"
          /\ (\E k \in Keys : files[k] # NoFile) =>
                /\ cinfo'.d.oldest_age_seconds =
                      (IF ValidTimes2(files) = {} THEN 0
                       ELSE (2 * now - SetMin(ValidTimes2(files))) \div 2)
                /\ cinfo'.d.newest_age_seconds =
                      (IF ValidTimes2(files) = {} THEN 0
                       ELSE (2 * now - SetMax(ValidTimes2(files))) \div 2)]_vars

(***************************************************************************)
(* classify_batch (lines 273-345): each item goes through classify_update. *)
(***************************************************************************)
\* an update: text, trade and id (<<>>: the dict has no "id")
BatchItems ==
    {[text |-> <<"a">>, trade |-> Electrical, id |-> <<>>],
     [text |-> <<"a">>, trade |-> HVAC, id |-> <<7>>],
     [text |-> <<"a">>, trade |-> HVAC, id |-> <<8>>],
     [text |-> <<"a">>, trade |-> Roofing, id |-> <<>>]}
Batches == UNION {[1..n -> BatchItems] : n \in 0..MaxBatch}

\* str(e) of the exception a classify_update ended with
ErrorText(r) == [t |-> "str", n |-> r.attempts, s |-> r.msg, of |-> <<r.kind, r.cause>>]

\* as WithUpdateId, attaching the id of the first update to every record
WithUpdateId_constant(d, update) == Put(d, "update_id", JInt(7))

\* lines 322-323 and 335-336: the update's id, when it has one
WithUpdateId(d, update) ==
    IF update.id # <<>> THEN Put(d, "update_id", JInt(update.id[1])) ELSE d

\* lines 329-337
ErrorRecord(update, r) ==
    WithUpdateId([k \in {"error", "text", "trade", "classification"} |->
                    CASE k = "error" -> ErrorText(r)
                      [] k = "text" -> JChars(update.text)
                      [] k = "trade" -> JChars(update.trade)
                      [] OTHER -> JStr("ERROR")],
                 update)

\* lines 311-337: what is appended to results for an update whose
\* classify_update ended as r
BatchRecord(update, r) ==
    IF r.kind = "returned" THEN WithUpdateId(r.result, update) ELSE ErrorRecord(update, r)

\* lines 339-345: the summary divides by elapsed and by total when
\* show_progress is set.  elapsed is positive once an item was processed.
BatchEnd(show_progress, total) ==
    IF show_progress /\ total = 0 THEN "ZeroDivisionError" ELSE "returned"

\* the end of one loop iteration, once classify_update is over
Collect ==
    /\ UNCHANGED <<bitems, bprog>>
    /\ IF pc' = "idle"
       THEN /\ bresults' = Append(bresults, BatchRecord(bitems[Len(bresults) + 1], ret'))
            /\ bret' = IF Len(bresults) + 1 = Len(bitems)
                       THEN BatchEnd(bprog, Len(bitems)) ELSE "running"
       ELSE UNCHANGED <<bresults, bret>>

\* classify_batch(updates, show_progress) up to its first classify_update
BatchStart(updates, show_progress) ==
    /\ bret = "none"
    /\ pc = "idle"
    /\ bitems' = updates
    /\ bprog' = show_progress
    /\ bresults' = <<>>
    /\ bret' = IF updates = <<>> THEN BatchEnd(show_progress, 0) ELSE "running"
    /\ UNCHANGED <<configVars, now, files, callVars, directVars, thr>>

\* the loop calls classify_update for the next update
BatchBegin ==
    /\ bret = "running"
    /\ Begin([text |-> bitems[Len(bresults) + 1].text,
              trade |-> bitems[Len(bresults) + 1].trade])
    /\ Collect

\* one attempt of the classify_update the loop is in
BatchAttempt(text, io) ==
    /\ bret = "running"
    /\ Attempt(text, io)
    /\ Collect

InitBatchRun ==
    /\ max_retries \in 1..2
    /\ enable_cache \in BOOLEAN
    /\ InitStore
    /\ InitCalls
    /\ InitDirect
    /\ InitBatch
    /\ InitThreads

NextBatch ==
    \/ \E updates \in Batches, show_progress \in BOOLEAN : BatchStart(updates, show_progress)
    \/ BatchBegin
    \/ \E text \in StorageResponses, io \in {"ok", "write_fails"} : BatchAttempt(text, io)

SpecBatch == InitBatchRun /\ [][NextBatch]_vars

\* the i-th record belongs to the i-th update: its Decision, or an error
\* record with classification ERROR, the error text and the update's text and
\* trade
RecordMatches(rec, update) ==
    LET isError == /\ rec["classification"] = JStr("ERROR")
                   /\ "error" \in DOMAIN rec
                   /\ rec["text"] = JChars(update.text)
                   /\ rec["trade"] = JChars(update.trade)
        isDecision == /\ DomainInvariants(rec)
                      /\ rec["_metadata"]["cache_key"] =
                            JHex(cache_key(update.text, update.trade))
    IN  IF update.trade \in {Electrical, HVAC, Plumbing}
        THEN isError \/ isDecision ELSE isError

\* C17: classify_batch never ends with an exception; while it runs it has
\* one record per update processed, in the order of the updates, and when it
\* returns it has one per update: the update's Decision, or an error record;
\* updates after a failed one are processed.
C17_BatchNeverAborts ==
    /\ bret \in {"none", "running", "returned"}
    /\ Len(bresults) <= Len(bitems)
    /\ bret = "returned" => Len(bresults) = Len(bitems)
    /\ \A i \in 1..Len(bresults) : RecordMatches(bresults[i], bitems[i])

(***************************************************************************)
(* Two callers in ResultCache.get and ResultCache.set on one key at the    *)
(* same time.  The code takes no lock and writes in place, so a call is    *)
(* the sequence of its file operations: set is open(.., 'w') (the file is  *)
(* created or truncated), then the write of the text when the file is      *)
(* closed; get is exists(), then open and json.load, then the return or    *)
(* the unlink.  An unlinked file stays open for the callers that hold it:  *)
(* what they write is no longer in the directory.                          *)
(***************************************************************************)
ConcKey == cache_key(<<"a">>, Electrical)

\* the dicts the two callers store: a Decision and a shorter dict
ConcValues ==
    {WithMetadata(Payload(JBool(FALSE), JStr("CLOSED"), JInt(92), JStr("No new scope."), {}),
                  Electrical, 0, ConcKey),
     [k \in {"classification", "confidence"} |->
        IF k = "classification" THEN JStr("CLOSED") ELSE JInt(85)]}

\* the file after text is written at offset 0 of a file holding old: text
\* alone when it is at least as long, else text followed by the tail of old
Overlay(old, text) ==
    IF st_size(old) <= Cardinality(text)
    THEN [st |-> "json", text |-> text]
    ELSE [st |-> "corrupt", text |-> text \cup old.text]

\* the file is unlinked: the callers that have it open keep the old file
Detach(t, key) ==
    [q \in DOMAIN t |-> IF t[q].key = key /\ t[q].fd = "attached"
                         THEN [t[q] EXCEPT !.fd = "detached"] ELSE t[q]]

ConcFrame == UNCHANGED <<configVars, now, callVars, directVars, batchVars>>

\* set, lines 83-87: the snapshot with its timestamp
SetCall(p, d) ==
    /\ thr[p].pc = "idle"
    /\ thr' = [thr EXCEPT ![p] = [IdleThread EXCEPT !.op = "set", !.pc = "opening",
                                     !.key = ConcKey, !.at = now,
                                     !.arg = Put(d, "_cache_timestamp", JFloatHalves(2 * now))]]
    /\ UNCHANGED files
    /\ ConcFrame

\* set, line 90: open(cache_file, 'w')
SetOpen(p) ==
    /\ thr[p].pc = "opening"
    /\ files' = [files EXCEPT ![thr[p].key] = CorruptFile]
    /\ thr' = [thr EXCEPT ![p].pc = "writing", ![p].fd = "attached"]
    /\ ConcFrame

\* set, line 91 and the end of the with block: the text reaches the file
SetWrite(p) ==
    /\ thr[p].pc = "writing"
    /\ files' = IF thr[p].fd = "attached"
                THEN [files EXCEPT ![thr[p].key] = Overlay(@, json_dump(thr[p].arg))]
                ELSE files
    /\ thr' = [thr EXCEPT ![p].pc = "idle", ![p].fd = "closed"]
    /\ ConcFrame

\* get, line 42: cache_file.exists()
GetCall(p) ==
    /\ thr[p].pc = "idle"
    /\ thr' = [thr EXCEPT ![p] = [IdleThread EXCEPT !.op = "get", !.key = ConcKey, !.at = now,
                                     !.pc = IF files[ConcKey].st = "absent"
                                            THEN "idle" ELSE "reading"]]
    /\ UNCHANGED files
    /\ ConcFrame

\* get, lines 46-47: open and json.load.  A file that is gone raises
\* FileNotFoundError, an OSError: lines 70-73 return None.
GetRead(p) ==
    /\ thr[p].pc = "reading"
    /\ thr' = [thr EXCEPT ![p].seen = files[thr[p].key],
                          ![p].pc = IF files[thr[p].key].st = "absent" THEN "idle" ELSE "deciding"]
    /\ UNCHANGED files
    /\ ConcFrame

\* get, lines 50-73 on what was read: the return, or the unlink of whatever
\* file is there by now
GetFinish(p) ==
    /\ thr[p].pc = "deciding"
    /\ LET key == thr[p].key
           got == ResultCache_get([files EXCEPT ![key] = thr[p].seen], key, now)
           unlinks == got.files[key].st = "absent"
       IN  /\ files' = IF unlinks THEN Unlink(files, key) ELSE files
           /\ thr' = [IF unlinks THEN Detach(thr, key) ELSE thr
                        EXCEPT ![p].pc = "idle", ![p].ret = got.ret, ![p].exc = got.exc]
    /\ ConcFrame

\* the files glob("*.json") lists, lines 104 and 116
Glob(fs) == {k \in DOMAIN fs : fs[k].st # "absent"}

\* clear, line 104: the glob
ClearCall(p) ==
    /\ thr[p].pc = "idle"
    /\ thr' = [thr EXCEPT ![p] = [IdleThread EXCEPT !.op = "clear", !.at = now,
                                     !.todo = Glob(files),
                                     !.pc = IF Glob(files) = {} THEN "idle" ELSE "unlinking"]]
    /\ UNCHANGED files
    /\ ConcFrame

\* clear, line 105: cache_file.unlink() of one listed file; it raises
\* FileNotFoundError when the file is gone, and nothing catches it
ClearUnlink(p, k) ==
    /\ thr[p].pc = "unlinking"
    /\ k \in thr[p].todo
    /\ IF files[k].st = "absent"
       THEN /\ thr' = [thr EXCEPT ![p].pc = "idle", ![p].exc = "FileNotFoundError"]
            /\ UNCHANGED files
       ELSE /\ files' = Unlink(files, k)
            /\ thr' = [Detach(thr, k) EXCEPT ![p].todo = @ \ {k},
                                             ![p].pc = IF thr[p].todo = {k} THEN "idle"
                                                       ELSE "unlinking"]
    /\ ConcFrame

\* stats, lines 116-122: the glob
StatsCall(p) ==
    /\ thr[p].pc = "idle"
    /\ thr' = [thr EXCEPT ![p] = [IdleThread EXCEPT !.op = "stats", !.at = now,
                                     !.todo = Glob(files),
                                     !.pc = IF Glob(files) = {} THEN "idle" ELSE "sizing"]]
    /\ UNCHANGED files
    /\ ConcFrame

\* stats, line 124: f.stat() of every listed file; it raises FileNotFoundError
\* when one is gone, and nothing catches it
StatsSize(p) ==
    /\ thr[p].pc = "sizing"
    /\ thr' = IF \E k \in thr[p].todo : files[k].st = "absent"
              THEN [thr EXCEPT ![p].pc = "idle", ![p].exc = "FileNotFoundError"]
              ELSE [thr EXCEPT ![p].pc = "loading"]
    /\ UNCHANGED files
    /\ ConcFrame

\* stats, lines 127-143: the files are read (one that is gone raises an
\* OSError, which is caught) and the dict is returned
StatsLoad(p) ==
    /\ thr[p].pc = "loading"
    /\ thr' = [thr EXCEPT ![p].pc = "idle",
                          ![p].exc = IF StatsLoopRaises(files) # {}
                                     THEN CHOOSE e \in StatsLoopRaises(files) : TRUE
                                     ELSE ResultCache_stats(files, now).exc]
    /\ UNCHANGED files
    /\ ConcFrame

\* time passes
ConcTick ==
    /\ now <= Ttl
    /\ now' = now + 1
    /\ UNCHANGED <<configVars, files, callVars, directVars, batchVars, thr>>

InitConcurrent ==
    /\ max_retries = MaxRetries
    /\ enable_cache = TRUE
    /\ InitStore
    /\ InitCalls
    /\ InitDirect
    /\ InitBatch
    /\ InitThreads

NextConcurrent ==
    \/ \E p \in Procs, d \in ConcValues : SetCall(p, d)
    \/ \E p \in Procs : SetOpen(p)
    \/ \E p \in Procs : SetWrite(p)
    \/ \E p \in Procs : GetCall(p)
    \/ \E p \in Procs : GetRead(p)
    \/ \E p \in Procs : GetFinish(p)
    \/ \E p \in Procs : ClearCall(p)
    \/ \E p \in Procs, k \in Keys : ClearUnlink(p, k)
    \/ \E p \in Procs : StatsCall(p)
    \/ \E p \in Procs : StatsSize(p)
    \/ \E p \in Procs : StatsLoad(p)
    \/ ConcTick

SpecConcurrent == InitConcurrent /\ [][NextConcurrent]_vars

\* the last call of caller p was a set and it is over
SetDone(p) == thr[p].op = "set" /\ thr[p].pc = "idle"
Stored(d) == [st |-> "json", text |-> json_dump(d)]

\* C19: once two set calls for one key are both over, however their steps
\* interleaved, the file of the key is the complete entry of one of the two:
\* not a mixture, not a corrupt file.
C19_LastWriteWins ==
    (SetDone(1) /\ SetDone(2)) =>
        files[ConcKey] \in {Stored(thr[1].arg), Stored(thr[2].arg)}

\* C20: with one caller in get and one in set on the same key, get never
\* raises and returns absent or a complete Decision that was stored; when the
\* set is over the entry it wrote is in the file; and no step of a get removes
\* or changes a readable entry whose age is within the ttl.
C20_ReadWriteSafe ==
    /\ [](\A p \in Procs : thr[p].op = "get" => thr[p].exc = "none")
    /\ [](\A p \in Procs : (thr[p].op = "get" /\ thr[p].ret.some) =>
             \E d \in ConcValues : Fields(thr[p].ret.d) = Fields(d))
    /\ [][\A p \in Procs :
             (thr[p].pc = "writing" /\ thr'[p].pc = "idle"
              /\ \A q \in Procs \ {p} : thr[q].op # "set") =>
                files'[ConcKey] = Stored(thr[p].arg)]_vars
    /\ [][\A p \in Procs :
             (thr[p].op = "get" /\ thr'[p] # thr[p] /\ thr'[p].op = "get"
              /\ Readable(ConcKey) /\ Age2(ConcKey, now) <= 2 * Ttl) =>
                files'[ConcKey] = files[ConcKey]]_vars

(***************************************************************************)
(* Two callers in classify_update at the same time on one ResultCache.     *)
(* A call is its lookup (lines 180-192), then the remote call, which takes *)
(* time, then validation with the write and the return, or the raise       *)
(* (lines 195-271, max_retries = 1).  get and set are taken as one step    *)
(* each here.                                                              *)
(***************************************************************************)
\* the model may answer the same request differently each time
CallerResponses ==
    {TransportFailure,
     Text("none", "", "dict", Payload(JBool(FALSE), JStr("CLOSED"), JInt(92), JStr("No new scope."), {})),
     Text("md", "json", "dict", Payload(JBool(TRUE), JStr("CONTESTABLE"), JInt(80), JStr("No new scope."), {}))}

\* what the two callers ask about: the same text and trade, or a trade that
\* is not valid
CallerRequests ==
    {[text |-> <<"a">>, trade |-> Electrical], [text |-> <<"a">>, trade |-> Roofing]}

\* lines 180-192
CallerBegin(p, r) ==
    /\ thr[p].pc = "idle"
    /\ IF r.trade \notin ValidTrades
       THEN /\ thr' = [thr EXCEPT ![p] = [IdleThread EXCEPT !.op = "classify_update", !.arg = r,
                                                            !.at = now, !.exc = "ValueError"]]
            /\ UNCHANGED files
       ELSE LET key == cache_key(r.text, r.trade)
                got == ResultCache_get(files, key, now)
            IN  /\ files' = got.files
                /\ thr' = [thr EXCEPT ![p] =
                              [IdleThread EXCEPT !.op = "classify_update", !.arg = r,
                                                 !.key = key, !.at = now,
                                                 !.exc = got.exc,
                                                 !.ret = IF got.exc = "none" /\ IsCacheHit(got)
                                                         THEN got.ret ELSE None,
                                                 !.pc = IF got.exc = "none" /\ ~IsCacheHit(got)
                                                        THEN "remote" ELSE "idle"]]
    /\ ConcFrame

\* lines 195-271 with max_retries = 1: the response arrives; an accepted one
\* is stored and returned, any other ends the call with ClassificationError
CallerAttempt(p, text, io) ==
    /\ thr[p].pc = "remote"
    /\ LET result == WithMetadata(text.d, thr[p].arg.trade, 0, thr[p].key)
       IN  IF AttemptError(text) = "ok"
           THEN /\ files' = ResultCache_set(files, thr[p].key, result, now, io)
                /\ thr' = [thr EXCEPT ![p].pc = "idle",
                                       ![p].ret = Some(ArgumentAfterSet(result, now))]
           ELSE /\ thr' = [thr EXCEPT ![p].pc = "idle", ![p].exc = "ClassificationError"]
                /\ UNCHANGED files
    /\ ConcFrame

InitCallers ==
    /\ max_retries = 1
    /\ enable_cache = TRUE
    /\ InitStore
    /\ InitCalls
    /\ InitDirect
    /\ InitBatch
    /\ InitThreads

NextCallers ==
    \/ \E p \in Procs, r \in CallerRequests : CallerBegin(p, r)
    \/ \E p \in Procs, text \in CallerResponses, io \in {"ok", "write_fails"} :
          CallerAttempt(p, text, io)
    \/ ConcTick

SpecCallers == InitCallers /\ [][NextCallers]_vars

PassesValidation(text) ==
    /\ text.call # "raise"
    /\ ParsesAsJson(text)
    /\ text.j = "dict"
    /\ DomainInvariants(text.d)

\* the two responses of the rejection-then-retry scenario
Contestable95 ==
    Text("none", "", "dict",
         Payload(JBool(TRUE), JStr("CONTESTABLE"), JInt(95), JStr("No new scope."), {}))
Contestable80 ==
    Text("md", "json", "dict",
         Payload(JBool(TRUE), JStr("CONTESTABLE"), JInt(80), JStr("No new scope."), {}))

\* C23: validation runs on every attempt: an attempt (final or not) whose
\* response fails validation returns nothing to the caller and writes nothing
\* to the cache; when the first response is CONTESTABLE with confidence 95 and
\* the second is CONTESTABLE with confidence 80, the first is discarded, the
\* second is returned, and the entry the cache holds for the request is the
\* second.
C23_ValidationEveryAttempt ==
    /\ [][(pc = "attempting" /\ calls' = calls + 1 /\ ~PassesValidation(resp')) =>
             /\ files' = files
             /\ wrote' = wrote
             /\ ret'.kind # "returned"
             /\ nfail' = nfail + 1]_vars
    /\ [][(pc = "attempting" /\ calls = 1 /\ resp = Contestable95
           /\ calls' = 2 /\ resp' = Contestable80) =>
             /\ ret = NoRet /\ wrote = "none" /\ nfail = 1
             /\ files[ReqKey(req)].st = "absent"
             /\ ret'.kind = "returned"
             /\ Fields(ret'.result) = Contestable80.d
             /\ ret'.result["confidence"] = JInt(80)
             /\ enable_cache => wrote' # "none"
             /\ wrote' = "ok" =>
                   /\ files'[ReqKey(req)].st = "json"
                   /\ Fields(json_load(files'[ReqKey(req)].text)) = Contestable80.d
             /\ \A k \in Keys \ {ReqKey(req)} : files'[k] = files[k]]_vars

\* the second response was returned after a first failed attempt, and stored
C23_Witness ==
    /\ ret.kind = "returned" /\ calls = 2 /\ nfail = 1
    /\ resp = Contestable80
    /\ ret.result["confidence"] = JInt(80)
    /\ wrote = "ok" /\ Readable(ReqKey(req))
    /\ json_load(files[ReqKey(req)].text)["confidence"] = JInt(80)

\* C24: a classify_update that ends with ClassificationError or ValueError
\* has written no cache entry; the stored entries are those from before the
\* call, except that the lookup may have removed the looked-up entry when it
\* was expired or corrupt.  Step by step: the entry of the call changes the
\* files at most by that removal (and not at all when the trade is invalid),
\* and an attempt that does not return leaves the files as they are.
C24_FailedRequestPersistsNothing ==
    /\ [](ret.kind \in {"ClassificationError", "ValueError"} => wrote = "none")
    /\ [][nreq' = nreq + 1 =>
             /\ ret'.kind = "ValueError" => files' = files /\ ~looked'
             /\ \A k \in Keys \ {ReqKey(req')} : files'[k] = files[k]
             /\ ReqKey(req') \in Keys =>
                   \/ files'[ReqKey(req')] = files[ReqKey(req')]
                   \/ /\ files'[ReqKey(req')] = NoFile
                      /\ \/ files[ReqKey(req')].st = "corrupt"
                         \/ /\ Readable(ReqKey(req'))
                            /\ Age2(ReqKey(req'), now) > 2 * Ttl]_vars
    /\ [][(pc = "attempting" /\ ret'.kind # "returned") =>
             files' = files /\ wrote' = "none"]_vars

\* a call on a caching classifier failed on all its attempts after an earlier
\* call had stored an entry, which is still there; the failed call's own
\* entry is absent
C24_Witness ==
    /\ ret.kind = "ClassificationError" /\ max_retries >= 1 /\ calls = max_retries
    /\ enable_cache /\ looked /\ wrote = "none" /\ nreq = 2
    /\ files[ReqKey(req)].st = "absent"
    /\ \E k \in Keys \ {ReqKey(req)} : Readable(k)

\* d carries the two annotations of a cache hit
HitAnnotated(d) ==
    /\ IsHit(d)
    /\ "cache_age_seconds" \in DOMAIN d["_metadata"]
    /\ d["_metadata"]["cache_age_seconds"].t = "int"
    /\ d["_metadata"]["cache_age_seconds"].n \in 0..Ttl

\* C25: every Decision ResultCache.get returns (to a direct caller or to
\* classify_update, which returns it unchanged) carries _metadata.cache_hit =
\* true and a cache age, also when the stored dict had no _metadata; a
\* Decision built from a remote attempt carries no cache_hit.
C25_HitAnnotation ==
    /\ (cop.op = "get" /\ cres.some) => HitAnnotated(cres.d)
    /\ (ret.kind = "returned" /\ calls = 0) => HitAnnotated(ret.result)
    /\ (ret.kind = "returned" /\ calls > 0) =>
          /\ ~IsHit(ret.result)
          /\ "cache_hit" \notin DOMAIN ret.result["_metadata"]

\* get returned a stored dict that had no _metadata: the _metadata of the
\* result holds the two annotations and nothing else
C25_Witness ==
    /\ cop.op = "get" /\ cres.some
    /\ "_metadata" \notin DOMAIN json_load(files[cop.key].text)
    /\ DOMAIN cres.d["_metadata"] = {"cache_hit", "cache_age_seconds"}
    /\ cres.d["_metadata"]["cache_hit"] = JBool(TRUE)

\* the i-th record of the batch is a Decision obtained from the remote model
FreshRecord(i) ==
    /\ bresults[i]["classification"] # JStr("ERROR")
    /\ ~IsHit(bresults[i])
    /\ "attempt" \in DOMAIN bresults[i]["_metadata"]

\* C26: with enable_cache = false classify_update never looks an entry up
\* and never writes one, the storage stays as it was, and every call on a
\* valid trade goes on to a remote attempt and returns only what a remote
\* attempt produced, also when the same (text, trade) was classified
\* successfully before.
C26_CacheDisabled ==
    /\ [](~enable_cache =>
            /\ ~looked /\ wrote = "none"
            /\ \A k \in Keys : files[k] = NoFile
            /\ ret.kind = "returned" => calls >= 1 /\ ~IsHit(ret.result)
            /\ \A i \in 1..Len(bresults) :
                  bresults[i]["classification"] # JStr("ERROR") => FreshRecord(i))
    /\ [][(~enable_cache /\ nreq' = nreq + 1 /\ req'.trade \in ValidTrades) =>
             pc' = "attempting" /\ calls' = 0 /\ ret' = NoRet /\ files' = files]_vars
    /\ [][~enable_cache => files' = files]_vars

\* with caching disabled, two updates with the same text and trade were both
\* classified by a remote attempt
C26_Witness ==
    /\ ~enable_cache /\ Len(bresults) = 2
    /\ bitems[1].text = bitems[2].text /\ bitems[1].trade = bitems[2].trade
    /\ FreshRecord(1) /\ FreshRecord(2)
    /\ calls = 1 /\ ret.kind = "returned"

\* C28: what classify_batch does to a Decision it got from classify_update
\* (attaching update_id) does not reach the cache: no stored entry has an
\* update_id, a stored entry is the Decision as classify_update returned it
\* and stays as it is while the batch goes on (until it is removed), and each
\* record carries the id of its own update (none when the update
\* has none), also when an earlier update with the same text and trade had
\* another id.
C28_CallersSeeCopies ==
    /\ [](\A k \in Keys : Readable(k) => "update_id" \notin DOMAIN json_load(files[k].text))
    /\ [](\A i \in 1..Len(bresults) :
            /\ "update_id" \in DOMAIN bresults[i] <=> bitems[i].id # <<>>
            /\ bitems[i].id # <<>> => bresults[i]["update_id"] = JInt(bitems[i].id[1]))
    /\ [][\A k \in Keys :
             (files'[k] # files[k] /\ files'[k].st = "json") =>
                /\ ret'.kind = "returned"
                /\ Pop(json_load(files'[k].text), "_cache_timestamp") = ret'.result]_vars
    /\ [][\A k \in Keys : Readable(k) => files'[k] = files[k] \/ files'[k] = NoFile]_vars

\* two updates with the same text and trade and the ids 7 and 8: the first
\* was classified remotely and stored, the second was served from the cache;
\* each record has its own id and the stored entry has none
C28_Witness ==
    /\ Len(bresults) = 2
    /\ bitems[1].id = <<7>> /\ bitems[2].id = <<8>>
    /\ bitems[1].text = bitems[2].text /\ bitems[1].trade = bitems[2].trade
    /\ ~IsHit(bresults[1]) /\ bresults[1]["update_id"] = JInt(7)
    /\ IsHit(bresults[2]) /\ bresults[2]["update_id"] = JInt(8)
    /\ Readable(ReqKey(req))
    /\ "update_id" \notin DOMAIN json_load(files[ReqKey(req)].text)

\* the outcomes of a remote call: it raises, or it returns text that does
\* not parse, that fails validation, or that is accepted
LiveResponses ==
    {TransportFailure,
     Text("none", "", "malformed", EmptyDict),
     Text("none", "", "dict", Payload(JBool(TRUE), JStr("CONTESTABLE"), JInt(95), JStr("No new scope."), {})),
     Text("none", "", "dict", Payload(JBool(FALSE), JStr("CLOSED"), JInt(92), JStr("No new scope."), {}))}

NextLive ==
    \/ \E r \in Requests : Begin(r) /\ UNCHANGED batchVars
    \/ \E text \in LiveResponses, io \in {"ok", "write_fails"} :
          Attempt(text, io) /\ UNCHANGED batchVars
    \/ Tick

\* classify_update with remote calls that each return or fail (lines 195-201
\* block until the call is over): an attempt that has started is eventually
\* over
SpecLive ==
    /\ Init
    /\ [][NextLive]_vars
    /\ WF_vars(\E text \in LiveResponses, io \in {"ok", "write_fails"} :
                  Attempt(text, io) /\ UNCHANGED batchVars)

\* C29: every classify_update call ends, in exactly one of two ways: a
\* Decision is returned or an error is raised.  While it runs, the number of
\* attempts made is the number of remote calls made and stays within
\* 0..max_retries; the loop variable equals it between attempts, the
\* Decision of a successful attempt and the ClassificationError after the
\* last attempt report it.  Once the call is over there is no further remote
\* call, sleep or cache write until the next call begins.
C29_Termination ==
    /\ (pc = "attempting") ~> (pc = "idle")
    /\ [](pc = "attempting" => ret = NoRet /\ nreq > 0)
    /\ []((pc = "idle" /\ nreq > 0) => ret.kind # "none")
    /\ [](calls \in 0..max_retries /\ attempt \in 0..max_retries)
    /\ [](pc = "attempting" => attempt = calls /\ attempt < max_retries /\ nfail = calls)
    /\ []((ret.kind = "returned" /\ calls > 0) =>
            ret.result["_metadata"]["attempt"] = JInt(calls))
    /\ []((ret.kind = "ClassificationError" /\ calls > 0) =>
            ret.attempts = calls /\ calls = max_retries)
    /\ [][(pc = "idle" /\ nreq' = nreq) =>
             /\ pc' = "idle" /\ ret' = ret
             /\ calls' = calls /\ sleeps' = sleeps /\ wrote' = wrote /\ files' = files]_vars

\* one call ended with a Decision after two failed attempts, with two sleeps;
\* it made three remote calls
C29_Witness ==
    /\ pc = "idle" /\ ret.kind = "returned" /\ max_retries = 3
    /\ calls = 3 /\ nfail = 2 /\ Len(sleeps) = 2
    /\ ret.result["_metadata"]["attempt"] = JInt(3)

\* C30: a Decision classify_update returns from a remote attempt is the raw
\* response of that attempt, which passed validation as it was, with
\* _metadata added: every member of the response is returned unchanged (no
\* confidence clamped or rounded, no classification downgraded, no
\* trade_relevant flipped) and _metadata is the only member added.
C30_NoSilentRepair ==
    (ret.kind = "returned" /\ calls > 0) =>
        /\ PassesValidation(resp)
        /\ DOMAIN ret.result = DOMAIN resp.d \cup {"_metadata"}
        /\ \A k \in DOMAIN resp.d : ret.result[k] = resp.d[k]
        /\ "downgrade_reason" \in DOMAIN ret.result["_metadata"] =>
              ret.result["classification"] = JStr("CLOSED")

\* a response with confidence 60.5 and ambiguous reasoning was returned as it
\* is, annotated with a downgrade_reason
C30_Witness ==
    /\ ret.kind = "returned" /\ calls > 0
    /\ resp.d["confidence"] = JFloatHalves(121)
    /\ ret.result["confidence"] = JFloatHalves(121)
    /\ ret.result["classification"] = JStr("CLOSED")
    /\ ret.result["_metadata"]["downgrade_reason"] = JStr("ambiguous_language")

\* C31: eviction is lazy and local to one key: get(k) and set(k, d) leave the
\* file of every other key as it is; an expired entry changes only through an
\* operation on its own key or through clear; stats() changes nothing and
\* counts the expired entries with the others.
C31_EvictionLocal ==
    /\ [][(cop'.op \in {"get", "set", "set_failed"} /\ now' = now) =>
             \A other \in Keys \ {cop'.key} : files'[other] = files[other]]_vars
    /\ [][\A k \in Keys :
             (Readable(k) /\ Age2(k, now) > 2 * Ttl /\ files'[k] # files[k]) =>
                /\ now' = now
                /\ \/ cop'.op = "clear"
                   \/ cop'.op \in {"get", "set", "set_failed"} /\ cop'.key = k]_vars
    /\ [][(cop'.op = "get" /\ now' = now /\ files'[cop'.key] # files[cop'.key]) =>
             /\ files'[cop'.key] = NoFile
             /\ \/ files[cop'.key].st = "corrupt"
                \/ Readable(cop'.key) /\ Age2(cop'.key, now) > 2 * Ttl]_vars
    /\ [][(cop'.op = "stats" /\ now' = now) =>
             /\ files' = files
             /\ cinfo'.exc = "none" =>
                   cinfo'.d.entries = Cardinality({k \in Keys : files[k] # NoFile})]_vars

\* a get removed the expired entry of its own key; the entry of the other
\* key, expired as well, is still stored
C31_Witness ==
    /\ cop.op = "get" /\ cinfo.found = "json" /\ cinfo.unlinked = {cop.key}
    /\ \E other \in Keys \ {cop.key} :
          /\ Readable(other) /\ Age2(other, now) > 2 * Ttl
          /\ Age2(other, cop.at) > 2 * Ttl

(***************************************************************************)
(* DecisionProof (decision_proof.py).  The object is the record of its five *)
(* collections; a timestamp is the model's clock.                          *)
(***************************************************************************)
record_input(p, key, value) == [p EXCEPT !.inputs = Put(@, key, value)]
record_output(p, key, value) == [p EXCEPT !.outputs = Put(@, key, value)]
add_metadata(p, key, value) == [p EXCEPT !.metadata = Put(@, key, value)]

add_reasoning_step(p, step, detail, t) ==
    [p EXCEPT !.reasoning_chain =
        Append(@, [step |-> step, detail |-> detail, timestamp |-> t])]

add_validation_check(p, check_name, passed, message, t) ==
    [p EXCEPT !.validation_checks =
        Append(@, [check |-> check_name, passed |-> passed, message |-> message,
                   timestamp |-> t])]

\* as is_valid, looking at the last check only
is_valid_last_only(p) ==
    \/ p.validation_checks = <<>>
    \/ Truthy(p.validation_checks[Len(p.validation_checks)].passed)

\* line 98: all(check["passed"] for check in self.validation_checks)
is_valid(p) == \A i \in 1..Len(p.validation_checks) : Truthy(p.validation_checks[i].passed)

\* proof.add_reasoning_step(step, detail)
ProofStep(step, detail) ==
    /\ Len(pcalls) < MaxProofCalls
    /\ proof' = add_reasoning_step(proof, step, detail, now)
    /\ pcalls' = Append(pcalls, [op |-> "add_reasoning_step", name |-> step,
                                  text |-> detail, passed |-> JNull])
    /\ UNCHANGED <<configVars, now, files, callVars, vin, vout, cop, cres, cinfo, fp,
                   pres, feas, batchVars, thr>>

\* proof.add_validation_check(check_name, passed, message)
ProofCheck(check_name, passed, message) ==
    /\ Len(pcalls) < MaxProofCalls
    /\ proof' = add_validation_check(proof, check_name, passed, message, now)
    /\ pcalls' = Append(pcalls, [op |-> "add_validation_check", name |-> check_name,
                                  text |-> message, passed |-> passed])
    /\ UNCHANGED <<configVars, now, files, callVars, vin, vout, cop, cres, cinfo, fp,
                   pres, feas, batchVars, thr>>

NextProof ==
    \/ \E step \in {"step1", "step2"} : ProofStep(step, "First step")
    \/ \E passed \in {JBool(TRUE), JBool(FALSE)}, message \in {"Passed", "Failed"} :
          ProofCheck("check1", passed, message)

SpecProof == Init /\ [][NextProof]_vars

\* the calls of one kind, in call order
CallsOf(kind) == SelectSeq(pcalls, LAMBDA c : c.op = kind)

\* C32: is_valid() is true exactly when every check recorded so far passed
\* (true when there is none); the reasoning chain and the check list hold one
\* item per add_reasoning_step and add_validation_check call, in call order,
\* with the arguments of the call; both only grow at the end; and once a
\* failing check was recorded is_valid() stays false.
C32_ProofValidity ==
    /\ [](is_valid(proof) <=>
            \A i \in 1..Len(pcalls) :
               pcalls[i].op = "add_validation_check" => pcalls[i].passed = JBool(TRUE))
    /\ [](/\ Len(proof.reasoning_chain) = Len(CallsOf("add_reasoning_step"))
          /\ \A i \in 1..Len(proof.reasoning_chain) :
                /\ proof.reasoning_chain[i].step = CallsOf("add_reasoning_step")[i].name
                /\ proof.reasoning_chain[i].detail = CallsOf("add_reasoning_step")[i].text)
    /\ [](/\ Len(proof.validation_checks) = Len(CallsOf("add_validation_check"))
          /\ \A i \in 1..Len(proof.validation_checks) :
                /\ proof.validation_checks[i].check = CallsOf("add_validation_check")[i].name
                /\ proof.validation_checks[i].passed = CallsOf("add_validation_check")[i].passed
                /\ proof.validation_checks[i].message = CallsOf("add_validation_check")[i].text)
    /\ [][/\ SubSeq(proof'.reasoning_chain, 1, Len(proof.reasoning_chain)) = proof.reasoning_chain
          /\ SubSeq(proof'.validation_checks, 1, Len(proof.validation_checks))
                = proof.validation_checks
          /\ ~is_valid(proof) => ~is_valid(proof')]_vars

\* a failing check was followed by a reasoning step and a passing check: the
\* proof is not valid
C32_Witness ==
    /\ Len(pcalls) = 3
    /\ Len(proof.validation_checks) = 2 /\ Len(proof.reasoning_chain) = 1
    /\ proof.validation_checks[1].passed = JBool(FALSE)
    /\ proof.validation_checks[2].passed = JBool(TRUE)
    /\ pcalls[2].op = "add_reasoning_step"
    /\ ~is_valid(proof)

(***************************************************************************)
(* Compliance (packages/compliance).  Strings that the code upper-cases,   *)
(* lower-cases or searches are sequences of characters.  Coverage amounts  *)
(* are in half millions (2.0 is 4); the day of today is the model's clock. *)
(***************************************************************************)
UpperChar(c) ==
    CASE c = "a" -> "A" [] c = "c" -> "C" [] c = "d" -> "D" [] c = "s" -> "S"
      [] c = "x" -> "X" [] OTHER -> c
LowerChar(c) ==
    CASE c = "A" -> "a" [] c = "C" -> "c" [] c = "T" -> "t" [] c = "I" -> "i"
      [] c = "V" -> "v" [] c = "E" -> "e" [] OTHER -> c
\* str.upper() and str.lower() on the letters the inputs are written with
Upper(str) == [i \in 1..Len(str) |-> UpperChar(str[i])]
Lower(str) == [i \in 1..Len(str) |-> LowerChar(str[i])]
\* "a in b" on strings
IsSubstring(a, b) == \E i \in 0..(Len(b) - Len(a)) : SubSeq(b, i + 1, i + Len(a)) = a

SCA == <<"S", "C", "A">>
DDC == <<"D", "D", "C">>
HPD == <<"H", "P", "D">>
DEP == <<"D", "E", "P">>
NYCHA == <<"N", "Y", "C", "H", "A">>

\* insurance.py lines 25-62; "statutory" is amount -1
AGENCY_REQUIREMENTS(agency_upper) ==
    LET limits(gl, umbrella) ==
            [c \in {"general_liability", "auto_liability", "workers_comp", "umbrella"} |->
                CASE c = "general_liability" -> gl
                  [] c = "auto_liability" -> 2
                  [] c = "workers_comp" -> -1
                  [] OTHER -> umbrella]
    IN  CASE agency_upper = SCA -> limits(4, 10)
          [] agency_upper = DDC -> limits(2, 4)
          [] agency_upper = HPD -> limits(2, 4)
          [] agency_upper = DEP -> limits(4, 6)
          [] agency_upper = NYCHA -> limits(2, 4)
          [] OTHER -> limits(2, 4)

\* InsuranceValidator.validate_coverage, lines 92-146 (details is the text
\* built from missing_coverage and insufficient_limits)
validate_coverage(user_coverage, agency) ==
    LET requirements == AGENCY_REQUIREMENTS(Upper(agency))
        missing == {c \in DOMAIN requirements :
                      IF requirements[c] = -1
                      THEN c \notin DOMAIN user_coverage \/ user_coverage[c] = 0
                      ELSE c \notin DOMAIN user_coverage}
        insufficient == {c \in DOMAIN requirements :
                           /\ requirements[c] # -1
                           /\ c \in DOMAIN user_coverage
                           /\ user_coverage[c] < requirements[c]}
    IN  [compliant |-> missing = {} /\ insufficient = {},
         missing_coverage |-> missing,
         insufficient_limits |-> insufficient,
         agency |-> Upper(agency)]

MasterElectrician == <<"M", "a", "s", "t", "e", "r", " ", "E", "l", "e", "c", "t", "r", "i", "c", "i", "a", "n">>
ElectricalContractor == <<"E", "l", "e", "c", "t", "r", "i", "c", "a", "l", " ", "C", "o", "n", "t", "r", "a", "c", "t", "o", "r">>
MasterPlumber == <<"M", "a", "s", "t", "e", "r", " ", "P", "l", "u", "m", "b", "e", "r">>
PlumbingContractor == <<"P", "l", "u", "m", "b", "i", "n", "g", " ", "C", "o", "n", "t", "r", "a", "c", "t", "o", "r">>
HVACLicense == <<"H", "V", "A", "C", " ", "L", "i", "c", "e", "n", "s", "e">>
MechanicalContractor == <<"M", "e", "c", "h", "a", "n", "i", "c", "a", "l", " ", "C", "o", "n", "t", "r", "a", "c", "t", "o", "r">>
Active == <<"a", "c", "t", "i", "v", "e">>

\* license.py lines 25-29, and .get(trade, [])
TRADE_LICENSE_REQUIREMENTS(trade) ==
    CASE trade = Electrical -> <<MasterElectrician, ElectricalContractor>>
      [] trade = Plumbing -> <<MasterPlumber, PlumbingContractor>>
      [] trade = HVAC -> <<HVACLicense, MechanicalContractor>>
      [] OTHER -> <<>>

\* lines 86-92: an expiry is "" (<<>> here), a date that parses (its day) or
\* text that fromisoformat rejects
NoExpiry == <<>>
ExpiryOn(day) == [parses |-> TRUE, day |-> day]
BadExpiry == [parses |-> FALSE, day |-> 0]
IsExpired(expiry, today) ==
    IF expiry = NoExpiry THEN FALSE
    ELSE IF ~expiry.parses THEN FALSE
    ELSE expiry.day < today

\* LicenseValidator.validate_license, lines 60-123; the licences are named by
\* their positions in user_licenses
validate_license(user_licenses, trade, today) ==
    LET required == TRADE_LICENSE_REQUIREMENTS(trade)
        matching == {i \in 1..Len(user_licenses) :
                       \E r \in 1..Len(required) : IsSubstring(required[r], user_licenses[i].type)}
        active == {i \in matching :
                     /\ Lower(user_licenses[i].status) = Active
                     /\ ~IsExpired(user_licenses[i].expiry, today)}
    IN  [compliant |-> active # {},
         active_licenses |-> active,
         expired_licenses |-> matching \ active,
         unknown_trade |-> required = <<>>]

Unknown == <<"U", "n", "k", "n", "o", "w", "n">>

\* blockers are texts, kept as their fixed words and the validator's details
ClosedBlocker ==
    [words |-> <<"Opportunity", "is", "CLOSED", "or", "not", "trade-relevant">>, details |-> {}]
InsuranceBlocker(insurance_result) ==
    [words |-> <<"Insurance:">>,
     details |-> insurance_result.missing_coverage \cup insurance_result.insufficient_limits]
LicenseBlocker(license_result) ==
    [words |-> <<"License:">>, details |-> license_result.expired_licenses]

\* round(final_score, 1), the score in thousandths in and in tenths out (no
\* integer confidence gives a score half way between two tenths)
RoundToTenths(thousandths) == (thousandths + 50) \div 100

\* as IsNoOpportunity, looking at the classification only
IsNoOpportunity_closed_only(trade_relevant, classification) == classification = "CLOSED"

\* feasibility.py line 83
IsNoOpportunity(trade_relevant, classification) == ~trade_relevant \/ classification = "CLOSED"

\* as CanBid, without asking for the licence
CanBid_without_license(classification, insurance_result, license_result) ==
    /\ classification \in {"CONTESTABLE", "SOFT_OPEN"}
    /\ insurance_result.compliant

\* lines 139-143
CanBid(classification, insurance_result, license_result) ==
    /\ classification \in {"CONTESTABLE", "SOFT_OPEN"}
    /\ insurance_result.compliant
    /\ license_result.compliant

\* FeasibilityScorer.calculate_feasibility, lines 62-162 (recommendations and
\* details, which the scorer only writes, are left out)
calculate_feasibility(opportunity_classification, user_insurance, user_licenses, agency, today) ==
    LET d == opportunity_classification
        classification == IF "classification" \in DOMAIN d THEN d["classification"].s ELSE "CLOSED"
        confidence == IF "confidence" \in DOMAIN d THEN d["confidence"] ELSE JInt(0)
        trade_relevant == IF "trade_relevant" \in DOMAIN d THEN Truthy(d["trade_relevant"]) ELSE FALSE
        meta == IF "_metadata" \in DOMAIN d THEN d["_metadata"] ELSE EmptyDict
        trade == IF "trade" \in DOMAIN meta /\ meta["trade"].of # <<>>
                 THEN meta["trade"].of ELSE Unknown
        insurance_result == validate_coverage(user_insurance, agency)
        license_result == validate_license(user_licenses, trade, today)
        \* base_score in tenths, compliance_multiplier in hundredths
        base_score == CASE classification = "CONTESTABLE" -> Twice(confidence) * 5
                        [] classification = "SOFT_OPEN" -> Twice(confidence) * 3
                        [] OTHER -> 0
        compliance_multiplier ==
            ((IF insurance_result.compliant THEN 10 ELSE 3)
                * (IF license_result.compliant THEN 10 ELSE 2))
        final_score == base_score * compliance_multiplier
    IN  IF IsNoOpportunity(trade_relevant, classification)
        THEN [feasibility_score |-> 0, can_bid |-> FALSE,
              opportunity_level |-> classification,
              compliance_readiness |-> [insurance |-> FALSE, license |-> FALSE],
              blockers |-> <<ClosedBlocker>>]
        ELSE [feasibility_score |-> RoundToTenths(final_score),
              can_bid |-> CanBid(classification, insurance_result, license_result),
              opportunity_level |-> classification,
              compliance_readiness |-> [insurance |-> insurance_result.compliant,
                                        license |-> license_result.compliant],
              blockers |-> (IF insurance_result.compliant THEN <<>>
                            ELSE <<InsuranceBlocker(insurance_result)>>)
                           \o (IF license_result.compliant THEN <<>>
                               ELSE <<LicenseBlocker(license_result)>>)]

(***************************************************************************)
(* calculate_feasibility applied to classification results and to a        *)
(* contractor's insurance and licences                                     *)
(***************************************************************************)
\* results as the classifier returns them and as callers abbreviate them:
\* each member present or left out
Opportunities ==
    {[k \in fields |->
        CASE k = "classification" -> JStr(c)
          [] k = "confidence" -> JInt(85)
          [] k = "trade_relevant" -> JBool(r)
          [] OTHER -> m] :
     c \in {"CLOSED", "SOFT_OPEN", "CONTESTABLE"}, r \in BOOLEAN,
     m \in {EmptyDict, [trade |-> JChars(Electrical)], [trade |-> JChars(Roofing)]},
     fields \in SUBSET {"classification", "confidence", "trade_relevant", "_metadata"}}

\* coverage in half millions: what SCA asks for, what DDC asks for, too little,
\* and no workers' compensation
Coverages ==
    {[c \in {"general_liability", "auto_liability", "umbrella", "workers_comp"} |->
        CASE c = "general_liability" -> 4 [] c = "auto_liability" -> 2
          [] c = "umbrella" -> 10 [] OTHER -> 2],
     [c \in {"general_liability", "auto_liability", "umbrella", "workers_comp"} |->
        CASE c = "general_liability" -> 2 [] c = "auto_liability" -> 2
          [] c = "umbrella" -> 4 [] OTHER -> 2],
     [c \in {"general_liability", "auto_liability", "umbrella"} |->
        CASE c = "general_liability" -> 1 [] c = "auto_liability" -> 2 [] OTHER -> 2],
     [c \in {"general_liability", "auto_liability", "umbrella", "workers_comp"} |->
        CASE c = "general_liability" -> 4 [] c = "auto_liability" -> 2
          [] c = "umbrella" -> 10 [] OTHER -> 0]}

\* one licence: its type, its status and its expiry
Licenses ==
    {[type |-> t, status |-> st, expiry |-> e] :
     t \in {MasterElectrician, <<"N", "Y", "C", " ">> \o MasterElectrician, HVACLicense},
     st \in {Active, <<"A", "C", "T", "I", "V", "E">>, <<"e", "x", "p", "i", "r", "e", "d">>},
     e \in {NoExpiry, ExpiryOn(-1), ExpiryOn(0), ExpiryOn(1), BadExpiry}}
LicenseLists == {<<>>} \cup {<<l>> : l \in Licenses}

Agencies == {SCA, DDC, <<"s", "c", "a">>, <<"X">>}

InitFeasibility ==
    /\ max_retries = MaxRetries
    /\ enable_cache = TRUE
    /\ InitStore
    /\ InitCalls
    /\ vin = NoResponse
    /\ vout = "pending"
    /\ cop = NoCall
    /\ cres = None
    /\ cinfo = NoInfo
    /\ fp = NoFingerprint
    /\ proof = NewProof
    /\ pcalls = <<>>
    /\ pres = NoProofResult
    /\ feas \in {[done |-> FALSE, opportunity |-> o, insurance |-> i, licenses |-> l,
                  agency |-> a, result |-> EmptyDict] :
                 o \in Opportunities, i \in Coverages, l \in LicenseLists, a \in Agencies}
    /\ InitBatch
    /\ InitThreads

\* one call of calculate_feasibility
Feasibility ==
    /\ ~feas.done
    /\ feas' = [feas EXCEPT
                  !.result = calculate_feasibility(feas.opportunity, feas.insurance,
                                                   feas.licenses, feas.agency, now),
                  !.done = TRUE]
    /\ UNCHANGED <<configVars, now, files, callVars, vin, vout, cop, cres, cinfo, fp,
                   proof, pcalls, pres, batchVars, thr>>

SpecFeasibility == InitFeasibility /\ [][Feasibility]_vars

\* the arguments of the call, as the code reads them
OppClassification ==
    IF "classification" \in DOMAIN feas.opportunity
    THEN feas.opportunity["classification"].s ELSE "CLOSED"
OppTradeRelevant ==
    "trade_relevant" \in DOMAIN feas.opportunity /\ Truthy(feas.opportunity["trade_relevant"])
Mentions(blocker, word) == \E i \in 1..Len(blocker.words) : blocker.words[i] = word

\* C33: for every classification result whose classification is CLOSED or
\* whose trade_relevant is false, and for every insurance, licence and agency
\* input, calculate_feasibility returns feasibility_score 0.0, can_bid false,
\* a first blocker that mentions CLOSED, and both compliance_readiness flags
\* false.
C33_ClosedScoresZero ==
    (feas.done /\ (OppClassification = "CLOSED" \/ ~OppTradeRelevant)) =>
        /\ feas.result.feasibility_score = 0
        /\ feas.result.can_bid = FALSE
        /\ Len(feas.result.blockers) >= 1
        /\ Mentions(feas.result.blockers[1], "CLOSED")
        /\ feas.result.compliance_readiness = [insurance |-> FALSE, license |-> FALSE]

\* a SOFT_OPEN result that is not trade-relevant has been scored for a
\* contractor whose insurance and licence are in order
C33_Witness ==
    /\ feas.done
    /\ OppClassification = "SOFT_OPEN"
    /\ ~OppTradeRelevant
    /\ validate_coverage(feas.insurance, feas.agency).compliant
    /\ validate_license(feas.licenses, Electrical, now).compliant
    /\ feas.result.feasibility_score = 0

OppTrade ==
    IF "_metadata" \in DOMAIN feas.opportunity
         /\ "trade" \in DOMAIN feas.opportunity["_metadata"]
         /\ feas.opportunity["_metadata"]["trade"].of # <<>>
    THEN feas.opportunity["_metadata"]["trade"].of ELSE Unknown
InsuranceCompliant == validate_coverage(feas.insurance, feas.agency).compliant
LicenseCompliant == validate_license(feas.licenses, OppTrade, now).compliant

\* C34: calculate_feasibility returns can_bid true if and only if the input
\* is trade-relevant, its classification is CONTESTABLE or SOFT_OPEN, and both
\* the insurance check and the licence check are compliant; can_bid true
\* implies that the blockers list is empty, and can_bid false that it is not.
C34_CanBidIff ==
    feas.done =>
        /\ feas.result.can_bid <=> (/\ OppTradeRelevant
                                    /\ OppClassification \in {"CONTESTABLE", "SOFT_OPEN"}
                                    /\ InsuranceCompliant
                                    /\ LicenseCompliant)
        /\ feas.result.can_bid => feas.result.blockers = <<>>
        /\ ~feas.result.can_bid => feas.result.blockers # <<>>

\* a trade-relevant SOFT_OPEN result has been scored for a contractor whose
\* insurance and licence are in order, and the contractor can bid
C34_Witness ==
    /\ feas.done
    /\ OppTradeRelevant
    /\ OppClassification = "SOFT_OPEN"
    /\ InsuranceCompliant
    /\ LicenseCompliant
    /\ feas.result.can_bid
    /\ feas.result.blockers = <<>>

\* C36: the storage-only field _cache_timestamp never leaks: set writes it to
\* the file and leaves the dict it was given as it was, and no dict returned
\* by get or by classify_update, on the miss path or on the hit path, has a
\* _cache_timestamp member.
C36_TimestampNeverLeaks ==
    /\ [](ret.kind = "returned" => "_cache_timestamp" \notin DOMAIN ret.result)
    /\ [](cres.some => "_cache_timestamp" \notin DOMAIN cres.d)
    /\ [][(cop'.op = "set" /\ now' = now /\ cop' # cop) =>
             /\ cop'.arg \in StorageValues
             /\ "_cache_timestamp" \notin DOMAIN cop'.arg
             /\ "_cache_timestamp" \in DOMAIN json_load(files'[cop'.key].text)]_vars
    /\ [][(pc = "attempting" /\ ret'.kind = "returned" /\ wrote' = "ok") =>
             /\ "_cache_timestamp" \in DOMAIN json_load(files'[ReqKey(req)].text)
             /\ ret'.result = Pop(json_load(files'[ReqKey(req)].text), "_cache_timestamp")]_vars

\* a classify_update served an entry from the cache, whose file holds the
\* timestamp
C36_Witness ==
    /\ ret.kind = "returned"
    /\ IsHit(ret.result)
    /\ Readable(ReqKey(req))
    /\ "_cache_timestamp" \in DOMAIN json_load(files[ReqKey(req)].text)

\* the _metadata of a dict, empty when it has none
MetaOf(d) == IF "_metadata" \in DOMAIN d THEN d["_metadata"] ELSE EmptyDict
HasMember(d, k, v) == k \in DOMAIN d /\ d[k] = v

\* C37: every dict classify_update returns for a request (text, trade), fresh
\* or served from a cache that only the pipeline wrote, has _metadata.trade
\* equal to the requested trade and _metadata.cache_key equal to the
\* fingerprint of (text, trade); a hit carries the attempt number that the
\* call which stored the entry recorded.
C37_MetadataMatchesRequest ==
    /\ [](ret.kind = "returned" =>
            /\ HasMember(MetaOf(ret.result), "trade", JChars(req.trade))
            /\ HasMember(MetaOf(ret.result), "cache_key", JHex(ReqKey(req))))
    /\ [][(pc = "idle" /\ nreq' = nreq + 1 /\ ret'.kind = "returned") =>
             /\ IsHit(ret'.result)
             /\ Readable(ReqKey(req'))
             /\ "attempt" \in DOMAIN MetaOf(ret'.result)
             /\ HasMember(MetaOf(json_load(files[ReqKey(req')].text)), "attempt",
                          MetaOf(ret'.result)["attempt"])]_vars
    /\ [][(pc = "attempting" /\ ret'.kind = "returned") =>
             HasMember(MetaOf(ret'.result), "attempt", JInt(attempt + 1))]_vars

\* a request was served from the cache an entry that its first call had
\* obtained on the second attempt
C37_Witness ==
    /\ ret.kind = "returned"
    /\ IsHit(ret.result)
    /\ req.trade = HVAC
    /\ HasMember(MetaOf(ret.result), "attempt", JInt(2))

(***************************************************************************)
(* OpportunityClassifier.classify_with_proof: classify_update inside a     *)
(* try block, with a DecisionProof built around it.  The texts of the      *)
(* reasoning steps and messages are kept as their fixed part and the       *)
(* values formatted into them.                                             *)
(***************************************************************************)
Formatted(text, values) == [text |-> text, values |-> values]

\* lines 61-72: the proof before classify_update is called
StartedProof(update_text, trade, agency, t) ==
    LET p1 == record_input(record_input(NewProof, "update_text", JChars(update_text)),
                           "trade", JChars(trade))
        p2 == IF agency # <<>> THEN record_input(p1, "agency", JChars(agency)) ELSE p1
    IN  add_reasoning_step(p2, "initialization",
                           Formatted("Starting classification for", <<trade>>), t)

\* lines 107-112: Python's `or` gives its first operand when that is true
TradeClassificationConsistent(result) ==
    IF Truthy(result["trade_relevant"]) THEN result["trade_relevant"]
    ELSE JBool(result["classification"] = JStr("CLOSED"))

\* lines 107-132: the checks recorded for a result, in order
ChecksOf(result) ==
    <<[check |-> "trade_classification_consistency",
       passed |-> TradeClassificationConsistent(result),
       message |-> Formatted("Trade-irrelevant updates must be classified as CLOSED", <<>>)],
      [check |-> "confidence_range",
       passed |-> JBool(/\ 2 * ConfidenceMin <= Twice(result["confidence"])
                        /\ Twice(result["confidence"]) <= 2 * ConfidenceMax),
       message |-> Formatted("Confidence must be 0-100, got", <<result["confidence"]>>)],
      [check |-> "classification_valid",
       passed |-> JBool(result["classification"] \in
                            {JStr("CLOSED"), JStr("SOFT_OPEN"), JStr("CONTESTABLE")}),
       message |-> Formatted("Valid classification received:", <<result["classification"]>>)]>>
    \o (IF result["classification"] = JStr("CONTESTABLE")
        THEN <<[check |-> "contestable_confidence_ceiling",
                passed |-> JBool(Twice(result["confidence"]) <= 2 * ContestableCeiling),
                message |-> Formatted("CONTESTABLE classifications maintain skeptical confidence ceiling", <<>>)]>>
        ELSE <<>>)

RECURSIVE AddChecks(_, _, _)
AddChecks(p, checks, t) ==
    IF checks = <<>> THEN p
    ELSE AddChecks(add_validation_check(p, Head(checks).check, Head(checks).passed,
                                        Head(checks).message, t),
                   Tail(checks), t)

\* lines 134-140: every member of the result's _metadata, then the two of the
\* proof's own
MetadataOf(p, result) ==
    LET meta == IF "_metadata" \in DOMAIN result THEN result["_metadata"] ELSE EmptyDict
        copied == [p EXCEPT !.metadata =
                      [k \in DOMAIN p.metadata \cup DOMAIN meta |->
                          IF k \in DOMAIN meta THEN meta[k] ELSE p.metadata[k]]]
    IN  add_metadata(add_metadata(copied, "skeptical_by_default", JBool(TRUE)),
                     "system_prompt_hash", [t |-> "int", n |-> 0, s |-> "hash(SYSTEM_PROMPT)"])

\* lines 77-142: the proof returned with a result
CompletedProof(p, result, t) ==
    LET s1 == add_reasoning_step(p, "trade_relevance_check",
                                 Formatted("Trade relevant:", <<result["trade_relevant"]>>), t)
        s2 == add_reasoning_step(s1, "classification_decision",
                                 Formatted("Classification:",
                                           <<result["classification"], result["confidence"]>>), t)
        s3 == add_reasoning_step(s2, "reasoning", result["reasoning"], t)
        s4 == add_reasoning_step(s3, "risk_assessment", result["risk_note"], t)
        o1 == record_output(s4, "classification", result["classification"])
        o2 == record_output(o1, "confidence", result["confidence"])
        o3 == record_output(o2, "trade_relevant", result["trade_relevant"])
        o4 == record_output(o3, "reasoning", result["reasoning"])
        o5 == record_output(o4, "risk_note", result["risk_note"])
        o6 == record_output(o5, "recommended_action", result["recommended_action"])
    IN  MetadataOf(AddChecks(o6, ChecksOf(result), t), result)

\* lines 144-165: the proof of a call that raises (it is dropped with the call)
FailedProof(p, kind, msg, t) ==
    LET step == IF kind = "ClassificationError" THEN "classification_error"
                ELSE "unexpected_error"
    IN  add_validation_check(add_reasoning_step(p, step, msg, t),
                             "classification_success", JBool(FALSE), msg, t)

\* what the try block makes of the state classify_update is in after a step:
\* still running, returned, or raised (KeyError: the result lacks a member
\* that lines 80-105 read; TypeError: its confidence does not compare)
ProofOutcome(p, position, outcome, t) ==
    IF position = "attempting" THEN [proof |-> p, pres |-> [kind |-> "running", result |-> EmptyDict]]
    ELSE IF outcome.kind # "returned"
    THEN [proof |-> FailedProof(p, outcome.kind, outcome.msg, t),
          pres |-> [kind |-> outcome.kind, result |-> EmptyDict]]
    ELSE IF ~(required_fields \subseteq DOMAIN outcome.result)
    THEN [proof |-> FailedProof(p, "KeyError", "", t),
          pres |-> [kind |-> "KeyError", result |-> EmptyDict]]
    ELSE IF ~IsNumber(outcome.result["confidence"])
    THEN [proof |-> FailedProof(p, "TypeError", "", t),
          pres |-> [kind |-> "TypeError", result |-> EmptyDict]]
    ELSE [proof |-> CompletedProof(p, outcome.result, t),
          pres |-> [kind |-> "returned", result |-> outcome.result]]

\* classify_with_proof up to the first remote call, or to its end when
\* classify_update ends without one
ProofBegin(r, agency) ==
    /\ BeginCall(r)
    /\ LET out == ProofOutcome(StartedProof(r.text, r.trade, agency, now), pc', ret', now')
       IN  proof' = out.proof /\ pres' = out.pres
    /\ UNCHANGED <<pcalls, feas>>

\* one iteration of classify_update's loop inside classify_with_proof, and
\* the rest of classify_with_proof when it was the last
ProofAttempt(text, io) ==
    /\ pres.kind = "running"
    /\ AttemptCall(text, io)
    /\ LET out == ProofOutcome(proof, pc', ret', now')
       IN  proof' = out.proof /\ pres' = out.pres
    /\ UNCHANGED <<pcalls, feas>>

ProofAgencies == {<<>>, SCA}

\* the answers of the remote model here: a call that raises, text that does
\* not parse, two results that the validation rejects and two that it accepts
ProofResponses ==
    {TransportFailure,
     Text("none", "", "malformed", EmptyDict),
     Text("none", "", "dict", Payload(JBool(FALSE), JStr("SOFT_OPEN"), JInt(50), JStr("No new scope."), {})),
     Text("none", "", "dict", Payload(JBool(TRUE), JStr("CONTESTABLE"), JInt(95), JStr("No new scope."), {})),
     Text("none", "", "dict", Payload(JBool(FALSE), JStr("CLOSED"), JInt(92), JStr("No new scope."), {})),
     Text("md", "json", "dict", Payload(JBool(TRUE), JStr("CONTESTABLE"), JInt(80), JStr("No new scope."), {}))}

NextProofPipeline ==
    \/ \E r \in Requests, agency \in ProofAgencies : ProofBegin(r, agency) /\ UNCHANGED batchVars
    \/ \E text \in ProofResponses, io \in {"ok", "write_fails"} :
          ProofAttempt(text, io) /\ UNCHANGED batchVars
    \/ Tick

SpecProofPipeline == Init /\ [][NextProofPipeline]_vars

\* C38: whenever classify_with_proof returns a pair (result, proof), the
\* proof is valid (every recorded check passed: trade/classification
\* consistency, confidence range, classification validity, and the
\* CONTESTABLE ceiling when the result is CONTESTABLE) and the outputs the
\* proof recorded are the six decision fields of the result; when
\* classify_update raises, classify_with_proof raises the same exception and
\* returns no pair.
C38_ReturnedProofValid ==
    /\ [](pres.kind = "returned" =>
            /\ is_valid(proof)
            /\ {proof.validation_checks[i].check : i \in 1..Len(proof.validation_checks)}
                 = {"trade_classification_consistency", "confidence_range",
                    "classification_valid"}
                   \cup (IF pres.result["classification"] = JStr("CONTESTABLE")
                         THEN {"contestable_confidence_ceiling"} ELSE {})
            /\ proof.outputs = Fields(pres.result)
            /\ DOMAIN proof.outputs = required_fields
            /\ pres.result = ret.result)
    /\ [](pc = "idle" /\ nreq > 0 => pres.kind = ret.kind)
    /\ [](pres.kind \notin {"none", "running", "returned"} =>
            pres.result = EmptyDict /\ ~is_valid(proof))

\* a CONTESTABLE result was returned with a proof of four passing checks,
\* after an attempt that failed
C38_Witness ==
    /\ pres.kind = "returned"
    /\ pres.result["classification"] = JStr("CONTESTABLE")
    /\ Len(proof.validation_checks) = 4
    /\ is_valid(proof)
    /\ nfail = 1

(***************************************************************************)
(* A cache directory with entries that hold an object without the          *)
(* _cache_timestamp member                                                 *)
(***************************************************************************)
\* objects that set did not write: a bare dict, and a result of the pipeline
\* whose timestamp is missing
UnstampedFiles ==
    {[st |-> "json", text |-> json_dump(d)] :
        d \in StorageValues \cup
              {WithMetadata(Payload(JBool(FALSE), JStr("CLOSED"), JInt(92), JStr("No new scope."), {}),
                            HVAC, 0, cache_key(<<"a">>, HVAC))}}

NextUnstamped ==
    \/ \E k \in Keys, f \in UnstampedFiles : Damage(k, f)
    \/ \E k \in Keys, d \in StorageValues : nreq = 0 /\ CacheSet(k, d, "ok")
    \/ \E k \in Keys : nreq = 0 /\ CacheGet(k)
    \/ \E r \in Requests : cop = NoCall /\ Begin(r) /\ UNCHANGED batchVars
    \/ \E text \in StorageResponses, io \in {"ok", "write_fails"} :
          Attempt(text, io) /\ UNCHANGED batchVars
    \/ CacheTick

SpecUnstamped == InitStorage /\ [][NextUnstamped]_vars

Unstamped(file) ==
    file.st = "json" /\ "_cache_timestamp" \notin DOMAIN json_load(file.text)

\* C39: a stored entry that parses as an object but has no _cache_timestamp
\* member is treated as created at time 0: once the current time is greater
\* than the ttl, get returns absent for it and deletes it, and classify_update
\* does not return it; before that its age is the current time.
C39_UnstampedIsOld ==
    /\ [][(cop'.op = "get" /\ cop' # cop /\ Unstamped(files[cop'.key])) =>
             IF now > Ttl
             THEN ~cres'.some /\ files'[cop'.key] = NoFile /\ cinfo'.exc = "none"
             ELSE /\ cres'.some
                  /\ HasMember(MetaOf(cres'.d), "cache_age_seconds", JInt(now))
                  /\ files'[cop'.key] = files[cop'.key]]_vars
    /\ [][(pc = "idle" /\ nreq' = nreq + 1 /\ req'.trade \in ValidTrades
             /\ Unstamped(files[ReqKey(req')]) /\ now > Ttl) =>
             /\ ret'.kind # "returned"
             /\ pc' = "attempting"
             /\ files'[ReqKey(req')] = NoFile]_vars

\* a get at a time greater than the ttl found an entry without a timestamp,
\* returned absent and unlinked the file
C39_Witness ==
    /\ cop.op = "get"
    /\ cop.at > Ttl
    /\ cop.at = now
    /\ cinfo.found = "json"
    /\ cinfo.unlinked = {cop.key}
    /\ ~cres.some
    /\ \A k \in Keys : files[k].st = "absent"
    /\ nreq = 0

(***************************************************************************)
(* A classifier constructed with max_retries = 0, on a cache directory     *)
(* that a classifier with retries has filled                               *)
(***************************************************************************)
InitNoRetries ==
    /\ max_retries = 0
    /\ enable_cache \in BOOLEAN
    /\ InitStore
    /\ InitCalls
    /\ InitDirect
    /\ InitBatch
    /\ InitThreads

NextNoRetries ==
    \/ \E k \in Keys, d \in CacheValues : nreq = 0 /\ CacheSet(k, d, "ok")
    \/ \E r \in Requests : Begin(r) /\ UNCHANGED batchVars
    \/ Tick

SpecNoRetries == InitNoRetries /\ [][NextNoRetries]_vars

\* the lookup of a request finds an entry that has not expired
FindsEntry(r) ==
    /\ enable_cache
    /\ Readable(ReqKey(r))
    /\ ~Expired(Age2(ReqKey(r), now))

\* C40: with max_retries = 0, classify_update on a cache miss makes no remote
\* call, performs no sleep and no cache write, and raises ClassificationError;
\* on a cache hit it still returns the cached dict.
C40_ZeroRetries ==
    /\ [](calls = 0 /\ sleeps = <<>> /\ wrote = "none" /\ pc = "idle")
    /\ [][(nreq' = nreq + 1 /\ req'.trade \in ValidTrades) =>
             IF FindsEntry(req')
             THEN /\ ret'.kind = "returned"
                  /\ IsHit(ret'.result)
                  /\ EqualButAnnotation(ret'.result,
                                        Pop(json_load(files[ReqKey(req')].text),
                                            "_cache_timestamp"))
                  /\ files' = files
             ELSE /\ ret'.kind = "ClassificationError"
                  /\ ret'.msg = "Unexpected retry loop exit"
                  /\ \A k \in Keys : files'[k] = files[k] \/ files'[k] = NoFile]_vars

\* with max_retries = 0 one request was served from the cache and the next,
\* for a key without entry, raised ClassificationError
C40_Witness ==
    /\ nreq = 2
    /\ ret.kind = "ClassificationError"
    /\ ret.msg = "Unexpected retry loop exit"
    /\ looked
    /\ \E k \in Keys : Readable(k) /\ k # ReqKey(req)
    /\ calls = 0

(***************************************************************************)
(* _cache_key used directly on two pairs of arbitrary strings              *)
(***************************************************************************)
RECURSIVE StringsUpTo(_)
\* the strings of at most n characters over a letter and the separator
StringsUpTo(n) ==
    IF n = 0 THEN {<<>>}
    ELSE StringsUpTo(n - 1) \cup
         {Append(w, c) : w \in {x \in StringsUpTo(n - 1) : Len(x) = n - 1}, c \in {"a", ":"}}

KeyArgs == StringsUpTo(MaxStr) \X StringsUpTo(MaxStr)

InitFingerprint ==
    /\ max_retries = MaxRetries
    /\ enable_cache = TRUE
    /\ InitStore
    /\ InitCalls
    /\ vin = NoResponse
    /\ vout = "pending"
    /\ cop = NoCall
    /\ cres = None
    /\ cinfo = NoInfo
    /\ fp \in {[NoFingerprint EXCEPT !.a = a, !.b = b] : a \in KeyArgs, b \in KeyArgs}
    /\ InitAudit
    /\ InitBatch
    /\ InitThreads

\* lines 93-99 applied to each pair (trade, update_text)
Fingerprint ==
    /\ ~fp.done
    /\ fp' = [fp EXCEPT !.ka = cache_key(fp.a[2], fp.a[1]),
                        !.kb = cache_key(fp.b[2], fp.b[1]),
                        !.done = TRUE]
    /\ UNCHANGED <<configVars, now, files, callVars, vin, vout, cop, cres, cinfo,
                   auditVars, batchVars, thr>>

SpecFingerprint == InitFingerprint /\ [][Fingerprint]_vars

(***************************************************************************)
(* _cache_key as classify_update uses it: on the trade and the text of a   *)
(* request whose trade passed the check of line 180                        *)
(***************************************************************************)
PipelineArgs == ValidTrades \X StringsUpTo(MaxStr)

InitPipelineKeys ==
    /\ max_retries = MaxRetries
    /\ enable_cache = TRUE
    /\ InitStore
    /\ InitCalls
    /\ vin = NoResponse
    /\ vout = "pending"
    /\ cop = NoCall
    /\ cres = None
    /\ cinfo = NoInfo
    /\ fp \in {[NoFingerprint EXCEPT !.a = a, !.b = b] : a \in PipelineArgs, b \in PipelineArgs}
    /\ InitAudit
    /\ InitBatch
    /\ InitThreads

\* lines 180-189 for two requests: the trade check, then the cache key
PipelineFingerprint ==
    /\ ~fp.done
    /\ fp.a[1] \in ValidTrades
    /\ fp.b[1] \in ValidTrades
    /\ fp' = [fp EXCEPT !.ka = cache_key(fp.a[2], fp.a[1]),
                        !.kb = cache_key(fp.b[2], fp.b[1]),
                        !.done = TRUE]
    /\ UNCHANGED <<configVars, now, files, callVars, vin, vout, cop, cres, cinfo,
                   auditVars, batchVars, thr>>

SpecPipelineKeys == InitPipelineKeys /\ [][PipelineFingerprint]_vars

\* C35: for the three accepted trades and any texts, two classify_update
\* requests hash the same byte string trade:text only if they have the same
\* trade and the same text, so the entry of one request is never the entry of
\* a different request.
C35_PipelineKeysSeparate ==
    fp.done => (fp.ka = fp.kb => (fp.a[1] = fp.b[1] /\ fp.a[2] = fp.b[2]))

\* two requests with different trades and texts that contain the separator
\* have been given their keys
C35_Witness ==
    /\ fp.done
    /\ fp.a[1] = HVAC
    /\ fp.b[1] = Electrical
    /\ fp.a[2] = <<":", "a">>
    /\ fp.b[2] = <<":">>
    /\ fp.ka # fp.kb

\* C22: the same (category, text) pair always yields the same fingerprint,
\* and two pairs of arbitrary strings that differ in the category or in the
\* text yield different hashed byte strings, so different fingerprints.
C22_FingerprintDistinct ==
    fp.done => /\ (fp.a = fp.b => fp.ka = fp.kb)
               /\ (fp.a # fp.b => fp.ka # fp.kb)

\* C21: when an entry is removed by one caller (eviction or cleanup in get,
\* or clear) while another caller's get, clear or stats works on it, no call
\* raises; and a get that read an expired entry returns absent whether or not
\* the other get has removed the file already.
C21_ConcurrentDeletionTolerated ==
    /\ [](\A p \in Procs : thr[p].op \in {"get", "clear", "stats"} => thr[p].exc = "none")
    /\ [][\A p \in Procs :
             (thr[p].pc = "deciding" /\ thr'[p].pc = "idle" /\ thr[p].seen.st = "json"
              /\ 2 * now - Twice(json_load(thr[p].seen.text)["_cache_timestamp"]) > 2 * Ttl) =>
                ~thr'[p].ret.some /\ thr'[p].exc = "none"]_vars

====
